---- MODULE Spec2Model ----
(***************************************************************************)
(* Model of the dnsproxy query pipeline (proxy/server.go, proxy/proxy.go)  *)
(* and of the blocked-domains manager (proxy/blocked_domains_manager.go).  *)
(*                                                                         *)
(* A Go string that the code splits on "." is represented by the sequence  *)
(* of its labels, exactly what strings.Split(s, ".") returns:              *)
(*   "a.b"  = <<"a","b">>     "a.b." = <<"a","b","">>                       *)
(*   ""     = <<"">>          "."    = <<"","">>                            *)
(***************************************************************************)
EXTENDS Integers, Sequences, FiniteSets, TLC

VARIABLES hosts, numDomains, inserted, lastCheck,
          RefuseAny, conf, tokens, recSet, cache, ctx, ecs, loader, srv, sm, pdm

matcherVars == <<hosts, numDomains, inserted, lastCheck>>
configVars == <<RefuseAny, conf, ecs, loader, srv, sm, pdm>>
queryVars == <<RefuseAny, conf, tokens, recSet, cache, ctx, ecs, srv, sm,
               pdm>>
proxyVars == <<queryVars, loader>>
vars == <<hosts, numDomains, inserted, lastCheck, RefuseAny, conf, tokens, recSet, cache, ctx,
          ecs, loader, srv, sm, pdm>>

None == "none"

\* no call of checkDomain recorded
NoCheck == [domain |-> <<>>, res |-> [ok |-> FALSE, pattern |-> <<>>]]

(***************************************************************************)
(* Bounds of the model.                                                    *)
(***************************************************************************)
\* longest domain (in labels) handed to the matcher
MaxLabels == 3
\* most patterns added to the manager between two clear() calls
MaxPatterns == 2
\* burst of a rate-limit bucket
MaxTokens == 1
\* capacity of the response cache, in entries
MaxCacheEntries == 1
\* most blocked queries taken
MaxBlocked == 3
\* most expressions added to the parked domains manager
MaxParked == 2

(***************************************************************************)
(* String helpers.                                                         *)
(***************************************************************************)
Last(s) == s[Len(s)]

\* strings.TrimSuffix(s, ".")
TrimSuffixDot(s) == IF Len(s) >= 2 /\ Last(s) = "" THEN SubSeq(s, 1, Len(s) - 1) ELSE s

\* s + "."
AddDot(s) == Append(s, "")

\* "*." + s
Wildcard(s) == <<"*">> \o s

\* the string made of domainItems[i..], joined with "."
JoinFrom(domainItems, i) == SubSeq(domainItems, i, Len(domainItems))

(***************************************************************************)
(* BlockedDomainsManager.                                                  *)
(***************************************************************************)
MatcherLabels == {"a", "b"}

RECURSIVE SeqsUpTo(_, _)
SeqsUpTo(S, n) ==
    IF n = 0 THEN {<<>>}
    ELSE LET shorter == SeqsUpTo(S, n - 1)
         IN  shorter \cup {Append(s, x) : s \in {t \in shorter : Len(t) = n - 1}, x \in S}

\* plain domains of 1..MaxLabels labels
PlainDomains == SeqsUpTo(MatcherLabels, MaxLabels) \ {<<>>}

\* lines of a block list: plain domains and "*.suffix" wildcards
Patterns == PlainDomains \cup {Wildcard(s) : s \in {t \in PlainDomains : Len(t) < MaxLabels}}

\* make(map[string]*Set)
EmptyHosts == [b \in {} |-> {}]

\* every pattern stored in some bucket
Stored(h) == UNION {h[b] : b \in DOMAIN h}

\* the hosts map after addDomain(domain): the bucket is the last label
addDomainHosts(h, domain) ==
    LET bucket == Last(domain)
    IN  IF bucket \in DOMAIN h
        THEN [h EXCEPT ![bucket] = @ \cup {domain}]
        ELSE [b \in DOMAIN h \cup {bucket} |-> IF b = bucket THEN {domain} ELSE h[b]]

\* the inner loop of checkDomain: the first i..len(domainItems) whose
\* "*." + join(domainItems[i:]) is in the bucket
RECURSIVE wildcardScan(_, _, _)
wildcardScan(blockedDomains, domainItems, i) ==
    IF i > Len(domainItems) THEN [ok |-> FALSE, pattern |-> domainItems]
    ELSE LET tmpDomain == Wildcard(JoinFrom(domainItems, i))
         IN  IF tmpDomain \in blockedDomains
             THEN [ok |-> TRUE, pattern |-> tmpDomain]
             ELSE wildcardScan(blockedDomains, domainItems, i + 1)

RECURSIVE wildcardScanShortestFirst(_, _, _)
wildcardScanShortestFirst(blockedDomains, domainItems, i) ==
    IF i < 1 THEN [ok |-> FALSE, pattern |-> domainItems]
    ELSE LET tmpDomain == Wildcard(JoinFrom(domainItems, i))
         IN  IF tmpDomain \in blockedDomains
             THEN [ok |-> TRUE, pattern |-> tmpDomain]
             ELSE wildcardScanShortestFirst(blockedDomains, domainItems, i - 1)

checkDomainShortestFirst(h, domain) ==
    IF DOMAIN h # {}
    THEN IF Last(domain) \in DOMAIN h
         THEN LET blockedDomains == h[Last(domain)]
              IN  IF domain \in blockedDomains
                  THEN [ok |-> TRUE, pattern |-> domain]
                  ELSE wildcardScanShortestFirst(blockedDomains, domain, Len(domain))
         ELSE [ok |-> FALSE, pattern |-> domain]
    ELSE [ok |-> FALSE, pattern |-> domain]

checkDomainSubdomainsOnly(h, domain) ==
    IF DOMAIN h # {}
    THEN IF Last(domain) \in DOMAIN h
         THEN LET blockedDomains == h[Last(domain)]
              IN  IF domain \in blockedDomains
                  THEN [ok |-> TRUE, pattern |-> domain]
                  ELSE wildcardScan(blockedDomains, domain, 2)
         ELSE [ok |-> FALSE, pattern |-> domain]
    ELSE [ok |-> FALSE, pattern |-> domain]

\* checkDomain(domain) on the hosts map h: (matched, matching pattern)
checkDomain(h, domain) ==
    IF DOMAIN h # {}
    THEN IF Last(domain) \in DOMAIN h
         THEN LET blockedDomains == h[Last(domain)]
              IN  IF domain \in blockedDomains
                  THEN [ok |-> TRUE, pattern |-> domain]
                  ELSE wildcardScan(blockedDomains, domain, 1)
         ELSE [ok |-> FALSE, pattern |-> domain]
    ELSE [ok |-> FALSE, pattern |-> domain]

\* newBlockedDomainsManger()
newBlockedDomainsManger ==
    /\ hosts = EmptyHosts
    /\ numDomains = 0
    /\ inserted = {}
    /\ lastCheck = NoCheck

\* addDomain(domain) with r.numDomains++ outside the check of Has(domain)
addDomainCountsEvery(domain) ==
    /\ lastCheck = NoCheck
    /\ numDomains < MaxPatterns
    /\ hosts' = addDomainHosts(hosts, domain)
    /\ numDomains' = numDomains + 1
    /\ inserted' = inserted \cup {domain}
    /\ lastCheck' = NoCheck

\* addDomain(domain), under r.mux; inserted remembers what was added since
\* the last clear()
addDomain(domain) ==
    /\ lastCheck = NoCheck
    /\ numDomains < MaxPatterns
    /\ hosts' = addDomainHosts(hosts, domain)
    /\ numDomains' = IF Last(domain) \in DOMAIN hosts /\ domain \in hosts[Last(domain)]
                     THEN numDomains
                     ELSE numDomains + 1
    /\ inserted' = inserted \cup {domain}
    /\ lastCheck' = NoCheck

\* clear(), under r.mux
clear ==
    /\ lastCheck = NoCheck
    /\ hosts' = EmptyHosts
    /\ numDomains' = 0
    /\ inserted' = {}
    /\ lastCheck' = NoCheck

\* a call of checkDomain(domain) takes r.mux and computes its result;
\* lastCheck keeps the call and the result until the call returns
CheckDomainCall(domain) ==
    /\ lastCheck = NoCheck
    /\ lastCheck' = [domain |-> domain, res |-> checkDomain(hosts, domain)]
    /\ UNCHANGED <<hosts, numDomains, inserted>>

\* the call returns and releases r.mux
CheckDomainReturn ==
    /\ lastCheck # NoCheck
    /\ lastCheck' = NoCheck
    /\ UNCHANGED <<hosts, numDomains, inserted>>

(***************************************************************************)
(* loadBlockedDomains: the reload of the block lists.                      *)
(***************************************************************************)
\* conf.DomainsExcludedFromBlockingLists, which runProxy adds to Edm
DomainsExcludedFromBlockingLists == {<<"b", "b">>}

\* ExcludedDomainsManager.checkDomain(domain): an exact match in Edm.hosts
EdmCheckDomain(domain) == domain \in DomainsExcludedFromBlockingLists

\* a comment line of a block list
CommentLine == <<"#">>

\* strings.HasPrefix(line, "#")
HasPrefixHash(line) == line[1] = "#"

\* the lines block list files are made of
FileLines == {<<"b">>, <<"a", "b">>, <<"*", "b">>, <<"b", "b">>, CommentLine}

\* a block list file: its lines, and whether the last of them ends with
\* "\n"; the lines of the files of one reload are at most MaxPatterns
BlockFiles ==
    {f \in [lines : SeqsUpTo(FileLines, MaxPatterns), terminated : BOOLEAN] :
        f.lines = <<>> => f.terminated}

BlockFileLists ==
    {<<f>> : f \in BlockFiles}
    \cup {<<f, g>> : f \in {x \in BlockFiles : Len(x.lines) = 1},
                     g \in {x \in BlockFiles : Len(x.lines) \in 1..(MaxPatterns - 1)}}

\* the lines rd.ReadString('\n') returns with a nil error: what follows
\* the last "\n" of the file comes with io.EOF and ends the loop unread
readStrings(f) ==
    IF f.terminated THEN f.lines ELSE SubSeq(f.lines, 1, Len(f.lines) - 1)

\* the reading loops of loadBlockedDomains: allDomains, before it is sorted
RECURSIVE readFiles(_)
readFiles(files) ==
    IF files = <<>> THEN <<>>
    ELSE SelectSeq(readStrings(Head(files)), LAMBDA line : ~HasPrefixHash(line))
         \o readFiles(Tail(files))

\* len(s) of the Go string: every label of the model is one character
StrLen(s) == 2 * Len(s) - 1

\* the elements sort.Slice may put first: it orders by length only and is
\* not stable
SortsFirst(allDomains) ==
    {i \in 1..Len(allDomains) :
        \A j \in 1..Len(allDomains) : StrLen(allDomains[i]) <= StrLen(allDomains[j])}

RemoveAt(s, i) == SubSeq(s, 1, i - 1) \o SubSeq(s, i + 1, Len(s))

\* the names whose checks the model follows through a reload
CheckNames == {<<"b">>, <<"a", "b">>, <<"b", "b">>}

\* no reload has run.  Besides the locals of loadBlockedDomains the record
\* keeps the names that were blocked when the reload began and the names
\* that a check found not blocked while the reload ran
NoLoad ==
    [pc |-> "idle", files |-> <<>>, allDomains |-> <<>>, numDuplicatedDomains |-> 0,
     blockedBefore |-> {}, passed |-> {}]

\* loadBlockedDomains up to the end of the reading loops: r.clear() under
\* r.mux, then the files are read without it
loadBlockedDomains(files) ==
    /\ loader.pc \in {"idle", "done"}
    /\ clear
    /\ loader' = [pc |-> "loop", files |-> files, allDomains |-> readFiles(files),
                  numDuplicatedDomains |-> 0,
                  blockedBefore |-> {d \in CheckNames : checkDomain(hosts, d).ok},
                  passed |-> {}]
    /\ UNCHANGED queryVars

\* one iteration of the loop over the sorted allDomains: Edm.checkDomain,
\* r.checkDomain and r.addDomain each take their mutex on their own
loadDomain(i) ==
    /\ loader.pc = "loop"
    /\ i \in SortsFirst(loader.allDomains)
    /\ LET domain == loader.allDomains[i]
       IN  IF EdmCheckDomain(domain)
           THEN /\ loader' = [loader EXCEPT !.allDomains = RemoveAt(@, i)]
                /\ UNCHANGED matcherVars
           ELSE IF checkDomain(hosts, domain).ok
           THEN /\ lastCheck = NoCheck
                /\ loader' = [loader EXCEPT !.allDomains = RemoveAt(@, i),
                                            !.numDuplicatedDomains = @ + 1]
                /\ UNCHANGED matcherVars
           ELSE /\ addDomain(domain)
                /\ loader' = [loader EXCEPT !.allDomains = RemoveAt(@, i)]
    /\ UNCHANGED queryVars

\* the loop is over: the counters are published and logged
loadFinished ==
    /\ loader.pc = "loop"
    /\ loader.allDomains = <<>>
    /\ loader' = [loader EXCEPT !.pc = "done"]
    /\ UNCHANGED <<matcherVars, queryVars>>

\* a query handler calls checkDomain(domain), at any time
checkWhileLoading(domain) ==
    /\ CheckDomainCall(domain)
    /\ loader' = [loader EXCEPT !.passed =
                    IF loader.pc = "loop" /\ ~checkDomain(hosts, domain).ok
                    THEN @ \cup {domain} ELSE @]
    /\ UNCHANGED queryVars

(***************************************************************************)
(* DNS messages.                                                           *)
(***************************************************************************)
ProtoUDP == "udp"
ProtoTCP == "tcp"
Protos == {ProtoUDP, ProtoTCP}

TypeA == "A"
TypeAAAA == "AAAA"
TypeANY == "ANY"
TypePTR == "PTR"
TypeSOA == "SOA"
TypeNS == "NS"
QTypes == {TypeA, TypeAAAA, TypeANY, TypePTR}
\* the types of the requests for reversed addresses
ArpaTypes == {TypePTR, TypeSOA, TypeNS}

\* client addresses and the addresses that reversed names stand for
Addrs == {"10", "8"}
\* the addresses privateNets contains
PrivateNets == {"10"}

NameAB == <<"a", "b", "">>
NamePrivateArpa == <<"10", "arpa", "">>
NamePublicArpa == <<"8", "arpa", "">>
QNames == {NameAB, NamePrivateArpa, NamePublicArpa}

\* message ids of the clients
Ids == {1, 2}

\* the questions clients ask: every type for an ordinary name, reverse
\* lookups of a private and of a public address, an address lookup of a
\* reversed name
Questions ==
    [Name : {NameAB}, Qtype : QTypes]
    \cup [Name : {NamePrivateArpa, NamePublicArpa}, Qtype : {TypePTR}]
    \cup [Name : {NamePrivateArpa}, Qtype : {TypeSOA, TypeNS}]
    \cup [Name : {NamePrivateArpa}, Qtype : {TypeA}]

\* question sections: none, one question, or two questions
QuestionSections ==
    {<<>>} \cup {<<q>> : q \in Questions}
           \cup {<<q, [Name |-> NameAB, Qtype |-> TypeA]>> :
                    q \in {[Name |-> NameAB, Qtype |-> TypeANY],
                           [Name |-> NamePrivateArpa, Qtype |-> TypePTR]}}

\* the messages a listener hands to handleDNSRequest
\* the sections that ask for the reversed private address with one question
PrivateArpaSections ==
    {<<[Name |-> NamePrivateArpa, Qtype |-> t]>> : t \in ArpaTypes}

\* the address lookups of the ordinary name, which come with every id
AddressSections ==
    {<<[Name |-> NameAB, Qtype |-> t]>> : t \in {TypeA, TypeAAAA}}

Requests ==
    [Id : Ids, Response : {FALSE}, CheckingDisabled : {FALSE}, AuthenticatedData : {FALSE},
     Extra : {<<>>}, Answer : {<<>>},
     Question : AddressSections]
    \cup [Id : {1}, Response : {FALSE}, CheckingDisabled : {FALSE}, AuthenticatedData : {FALSE},
     Extra : {<<>>}, Answer : {<<>>},
          Question : QuestionSections]
    \cup [Id : {1}, Response : {TRUE}, CheckingDisabled : {FALSE}, AuthenticatedData : {FALSE},
     Extra : {<<>>}, Answer : {<<>>},
          Question : {<<[Name |-> NameAB, Qtype |-> TypeA]>>}]

\* the OPT record of a client that does not ask for DNSSEC records
ClientOPT == [UDPSize |-> 1232, Do |-> FALSE]

\* dns.Msg.IsEdns0 # nil: the additional section has an OPT record (the
\* model keeps the OPT records of the section only)
IsEdns0(msg) == Len(msg.Extra) > 0

NoReq == [Id |-> 0, Response |-> FALSE, CheckingDisabled |-> FALSE,
          AuthenticatedData |-> FALSE, Extra |-> <<>>, Answer |-> <<>>,
          Question |-> <<>>]

RcodeSuccess == "NOERROR"
RcodeServerFailure == "SERVFAIL"
RcodeNameError == "NXDOMAIN"
RcodeNotImplemented == "NOTIMP"

\* Ttl of the answer of a blocked response
BlockedTTL == 3600
retryNoError == 60

\* dns.Msg.SetRcode(request, rcode): the reply carries the id of the request
\* and the first question of the request
SetRcode(request, rCode) ==
    [Id |-> request.Id,
     Rcode |-> rCode,
     CheckingDisabled |-> request.CheckingDisabled,
     AuthenticatedData |-> FALSE,
     Question |-> IF Len(request.Question) > 0 THEN <<request.Question[1]>> ELSE <<>>,
     Answer |-> <<>>,
     Ns |-> <<>>,
     OPT |-> FALSE]

\* a nil *dns.Msg
NoMsg == [Id |-> 0, Rcode |-> None, CheckingDisabled |-> FALSE,
          AuthenticatedData |-> FALSE, Question |-> <<>>,
          Answer |-> <<>>, Ns |-> <<>>, OPT |-> FALSE]

NewMsgSERVFAIL(req) == SetRcode(req, RcodeServerFailure)
NewMsgNXDOMAIN(req) == SetRcode(req, RcodeNameError)
\* NOTIMPLEMENTED carries an OPT record
NewMsgNOTIMPLEMENTED(req) == [SetRcode(req, RcodeNotImplemented) EXCEPT !.OPT = TRUE]

genSOA(request, retry) ==
    <<[Name |-> IF Len(request.Question) > 0 THEN request.Question[1].Name ELSE <<"">>,
       Rrtype |-> "SOA", Ttl |-> 3600, Data |-> retry]>>

GenEmptyMessage(request, rCode, retry) ==
    [SetRcode(request, rCode) EXCEPT !.Ns = genSOA(request, retry)]

(***************************************************************************)
(* DNSContext and the shared state of the proxy.                           *)
(***************************************************************************)
\* the goroutines that can handle queries, and the one of them that the
\* listeners of a proxy with a single worker use
Goroutines == {"c1", "c2"}
Workers == {"c1"}

\* the goroutines of the running proxy
Slots == DOMAIN ctx

\* the context of a slot that handles no query.  Besides the fields of
\* DNSContext the record keeps what happened to the query: which gate
\* dropped it, whether the bucket, the validation, the block list and the
\* cache were consulted, the exchanges made and the response written.
IdleCtx ==
    [pc |-> "idle", Req |-> NoReq, Proto |-> ProtoUDP, Addr |-> "8",
     IsPrivateClient |-> FALSE, RequestedPrivateRDNS |-> None,
     Res |-> NoMsg, Upstream |-> None, isPrivate |-> FALSE,
     hasEDNS0 |-> FALSE, upstreams |-> {}, queried |-> {}, cacheHit |-> FALSE,
     replaced |-> FALSE, lastErr |-> None,
     CustomUpstreamConfig |-> [nil |-> TRUE, upstream |-> <<>>, cache |-> None],
     adBit |-> FALSE, doBit |-> FALSE, received |-> NoReq,
     counted |-> {},
     dropped |-> None, beforeRan |-> FALSE, rlConsulted |-> FALSE,
     ratelimited |-> FALSE,
     validatedBy |-> "notrun", blockChecked |-> FALSE, blocked |-> FALSE,
     cacheLookup |-> FALSE, cacheStored |-> FALSE, exchanged |-> {},
     wrote |-> NoMsg, err |-> None]

\* msgToSignature(m): the key of the recursion detector
msgToSignature(m) == [Id |-> m.Id, Qtype |-> m.Question[1].Qtype, Name |-> m.Question[1].Name]

\* recursionDetector.check(m)
recDetectorCheck(rs, m) == msgToSignature(m) \in rs

\* strings.ToLower on the labels of a name
ToLowerLabel(l) == CASE l = "A" -> "a" [] l = "B" -> "b" [] OTHER -> l
ToLower(name) == [i \in 1..Len(name) |-> ToLowerLabel(name[i])]

\* the key of the cache: lowercased name and type of the question
cacheKey(m) == [Name |-> ToLower(m.Question[1].Name), Qtype |-> m.Question[1].Qtype]

InCache(ca, k) == \E i \in 1..Len(ca) : ca[i].key = k

\* cache.get: the item stored under k
cacheGet(ca, k) == ca[CHOOSE i \in 1..Len(ca) : ca[i].key = k]

Without(ca, k) == SelectSeq(ca, LAMBDA x : x.key # k)

\* what the cache keeps of a response: the code and the answer
cacheItem(k, resp) ==
    [key |-> k, Rcode |-> resp.Rcode, AuthenticatedData |-> resp.AuthenticatedData,
     Answer |-> resp.Answer]

\* responses with these codes are cached
isCacheable(resp) == resp.Rcode \in {RcodeSuccess, RcodeNameError}

\* cache.set: the entry becomes the most recent one, the oldest one is
\* evicted when the cache is full
cacheSet(ca, item) ==
    LET put == Append(Without(ca, item.key), item)
    IN  IF Len(put) > MaxCacheEntries THEN Tail(put) ELSE put

\* netutil.ExtractReversedAddr(name)
ExtractReversedAddr(name) ==
    IF Len(name) = 3 /\ name[2] = "arpa" /\ name[3] = "" /\ name[1] \in Addrs
    THEN [ok |-> TRUE, addr |-> name[1]]
    ELSE [ok |-> FALSE, addr |-> None]

\* rate.RateLimiter.Try on the bucket of ip
isRatelimited(tk, ip) == tk[ip] < 1

takeToken(tk, ip) == IF tk[ip] >= 1 THEN [tk EXCEPT ![ip] = @ - 1] ELSE tk

isForbiddenARPAAnyClient(d) ==
    LET q == d.Req.Question[1]
        requestedPref == ExtractReversedAddr(q.Name)
    IN  IF q.Qtype \notin ArpaTypes
        THEN [ok |-> FALSE, RequestedPrivateRDNS |-> d.RequestedPrivateRDNS]
        ELSE IF ~requestedPref.ok
        THEN [ok |-> FALSE, RequestedPrivateRDNS |-> d.RequestedPrivateRDNS]
        ELSE IF requestedPref.addr \in PrivateNets
        THEN [ok |-> TRUE, RequestedPrivateRDNS |-> requestedPref.addr]
        ELSE [ok |-> FALSE, RequestedPrivateRDNS |-> d.RequestedPrivateRDNS]

\* DNSContext.isForbiddenARPA: the verdict and the value of
\* dctx.RequestedPrivateRDNS afterwards 
isForbiddenARPA(d) ==
    LET q == d.Req.Question[1]
        requestedPref == ExtractReversedAddr(q.Name)
    IN  IF q.Qtype \notin ArpaTypes
        THEN [ok |-> FALSE, RequestedPrivateRDNS |-> d.RequestedPrivateRDNS]
        ELSE IF ~requestedPref.ok
        THEN [ok |-> FALSE, RequestedPrivateRDNS |-> d.RequestedPrivateRDNS]
        ELSE IF requestedPref.addr \in PrivateNets
        THEN [ok |-> ~d.IsPrivateClient, RequestedPrivateRDNS |-> requestedPref.addr]
        ELSE [ok |-> FALSE, RequestedPrivateRDNS |-> d.RequestedPrivateRDNS]

validateRequestArpaFirst(d, refuseAny, rs) ==
    IF Len(d.Req.Question) # 1
    THEN [d EXCEPT !.Res = NewMsgSERVFAIL(d.Req), !.validatedBy = "qcount"]
    ELSE IF isForbiddenARPA(d).ok
    THEN [d EXCEPT !.Res = NewMsgNXDOMAIN(d.Req), !.validatedBy = "arpa",
                   !.RequestedPrivateRDNS = isForbiddenARPA(d).RequestedPrivateRDNS]
    ELSE IF refuseAny /\ d.Req.Question[1].Qtype = TypeANY
    THEN [d EXCEPT !.Res = NewMsgNOTIMPLEMENTED(d.Req), !.validatedBy = "any",
                   !.RequestedPrivateRDNS = isForbiddenARPA(d).RequestedPrivateRDNS]
    ELSE IF recDetectorCheck(rs, d.Req)
    THEN [d EXCEPT !.Res = NewMsgNXDOMAIN(d.Req), !.validatedBy = "recursion",
                   !.RequestedPrivateRDNS = isForbiddenARPA(d).RequestedPrivateRDNS]
    ELSE [d EXCEPT !.validatedBy = "ok",
                   !.RequestedPrivateRDNS = isForbiddenARPA(d).RequestedPrivateRDNS]

validateRequestAnyAllowed(d, refuseAny, rs) ==
    IF Len(d.Req.Question) # 1
    THEN [d EXCEPT !.Res = NewMsgSERVFAIL(d.Req), !.validatedBy = "qcount"]
    ELSE IF recDetectorCheck(rs, d.Req)
    THEN [d EXCEPT !.Res = NewMsgNXDOMAIN(d.Req), !.validatedBy = "recursion"]
    ELSE IF isForbiddenARPA(d).ok
    THEN [d EXCEPT !.Res = NewMsgNXDOMAIN(d.Req), !.validatedBy = "arpa",
                   !.RequestedPrivateRDNS = isForbiddenARPA(d).RequestedPrivateRDNS]
    ELSE [d EXCEPT !.validatedBy = "ok",
                   !.RequestedPrivateRDNS = isForbiddenARPA(d).RequestedPrivateRDNS]

\* Proxy.validateRequest: the context with d.Res set for an invalid request
validateRequest(d, refuseAny, rs) ==
    IF Len(d.Req.Question) # 1
    THEN [d EXCEPT !.Res = NewMsgSERVFAIL(d.Req), !.validatedBy = "qcount"]
    ELSE IF refuseAny /\ d.Req.Question[1].Qtype = TypeANY
    THEN [d EXCEPT !.Res = NewMsgNOTIMPLEMENTED(d.Req), !.validatedBy = "any"]
    ELSE IF recDetectorCheck(rs, d.Req)
    THEN [d EXCEPT !.Res = NewMsgNXDOMAIN(d.Req), !.validatedBy = "recursion"]
    ELSE IF isForbiddenARPA(d).ok
    THEN [d EXCEPT !.Res = NewMsgNXDOMAIN(d.Req), !.validatedBy = "arpa",
                   !.RequestedPrivateRDNS = isForbiddenARPA(d).RequestedPrivateRDNS]
    ELSE [d EXCEPT !.validatedBy = "ok",
                   !.RequestedPrivateRDNS = isForbiddenARPA(d).RequestedPrivateRDNS]

(***************************************************************************)
(* Resolve and the upstream exchange.                                      *)
(***************************************************************************)
\* configuration: the gateway addresses main discovers, the upstream sets
GatewayIPv4 == conf.GatewayIPv4
GatewayIPv6 == ""
\* the configuration the proxy was made with, besides RefuseAny
UsePrivateRDNS == conf.UsePrivateRDNS
\* p.UpstreamConfig: the upstreams of the registry, in their order
DefaultUpstreams == conf.Upstreams
PrivateUpstreams == {"private"}
\* p.Fallbacks, empty when it is nil
Fallbacks == conf.Fallbacks
UpstreamMode == conf.UpstreamMode
BogusNXDomain == conf.BogusNXDomain

UpstreamModeLoadBalance == "load_balance"
UpstreamModeParallel == "parallel"

\* the configuration of config.yaml: one upstream, a fallback
DefaultConf ==
    [UsePrivateRDNS |-> TRUE, Upstreams |-> <<"default">>, Fallbacks |-> {"fallback"},
     UpstreamMode |-> UpstreamModeLoadBalance, BogusNXDomain |-> {},
     GatewayIPv4 |-> "", CacheEnabled |-> TRUE]
\* p.cache != nil
CacheEnabled == conf.CacheEnabled

\* upstream.ErrNoUpstreams, wrapped by replyFromUpstream
ErrNoUpstreams == "no upstreams"

\* the domain of the configuration that is excluded from caching, and the
\* hosts of Efcm after its AddDomain
ExcludedFromCaching == <<"*", "x">>
EfcmHosts == addDomainHosts(EmptyHosts, ExcludedFromCaching)

\* utils.IsLocalHost(host)
IsLocalHost(host) == Len(TrimSuffixDot(host)) <= 1

\* the response Resolve builds for a blocked A or AAAA question
blockedResponseBareName(req, t, queryDomain) ==
    [GenEmptyMessage(req, RcodeSuccess, retryNoError) EXCEPT
        !.Id = req.Id,
        !.Answer = <<[Name |-> queryDomain, Rrtype |-> t, Ttl |-> BlockedTTL,
                      Data |-> IF t = TypeA THEN "0.0.0.0" ELSE "::"]>>,
        !.Question = req.Question]

blockedResponse(req, t, queryDomain) ==
    [GenEmptyMessage(req, RcodeSuccess, retryNoError) EXCEPT
        !.Id = req.Id,
        !.Answer = <<[Name |-> AddDot(queryDomain), Rrtype |-> t, Ttl |-> BlockedTTL,
                      Data |-> IF t = TypeA THEN "0.0.0.0" ELSE "::"]>>,
        !.Question = req.Question]

Range(s) == {s[i] : i \in 1..Len(s)}

\* a CustomUpstreamConfig without a cache of its own
NoCacheCustomConfig == [nil |-> FALSE, upstream |-> <<"custom">>, cache |-> None]

cacheWorksWithCD(d) ==
    /\ CacheEnabled
    /\ d.RequestedPrivateRDNS = None
    /\ ~(~d.CustomUpstreamConfig.nil /\ d.CustomUpstreamConfig.cache = None)

\* Proxy.cacheWorks
cacheWorks(d) ==
    /\ CacheEnabled
    /\ d.RequestedPrivateRDNS = None
    /\ ~(~d.CustomUpstreamConfig.nil /\ d.CustomUpstreamConfig.cache = None)
    /\ ~d.Req.CheckingDisabled

\* the signature an upstream that validates adds to its answer
TypeRRSIG == "RRSIG"
signature(q) == <<[Name |-> q.Name, Rrtype |-> TypeRRSIG, Ttl |-> 10, Data |-> "sig"]>>

\* a record that only DNSSEC-aware clients ask for
isDNSSEC(rr) == rr.Rrtype = TypeRRSIG

\* filterRRSlice(rrs, do, qt): without the DO bit the DNSSEC records that
\* the question does not ask for are left out
filterRRSlice(rrs, do, qt) ==
    IF do THEN rrs ELSE SelectSeq(rrs, LAMBDA rr : ~isDNSSEC(rr) \/ rr.Rrtype = qt)

\* filterMsg(m, m, ad, do, 0): the AD bit is kept for a client that set AD
\* or DO, the DNSSEC records for a client that set DO
filterMsg(m, ad, do) ==
    IF m = NoMsg THEN m
    ELSE [m EXCEPT !.AuthenticatedData = @ /\ (ad \/ do),
                   !.Answer = filterRRSlice(@, do,
                                  IF Len(m.Question) > 0 THEN m.Question[1].Qtype
                                  ELSE None)]

\* defaultUDPBufSize
defaultUDPBufSize == 2048

addDOAppends(msg) ==
    [msg EXCEPT !.Extra = Append(@, [UDPSize |-> defaultUDPBufSize, Do |-> TRUE])]

\* addDO(msg): the OPT record of msg gets the DO bit, a message without
\* one gets an OPT record with it
addDO(msg) ==
    IF IsEdns0(msg)
    THEN [msg EXCEPT !.Extra[1].Do = TRUE]
    ELSE [msg EXCEPT !.Extra = Append(@, [UDPSize |-> defaultUDPBufSize, Do |-> TRUE])]

\* DNSContext.calcFlagsAndSize: the AD and DO bits the client set, and
\* whether its request has an OPT record
calcFlagsAndSize(d) ==
    [d EXCEPT !.adBit = d.Req.AuthenticatedData,
              !.doBit = IsEdns0(d.Req) /\ d.Req.Extra[1].Do,
              !.hasEDNS0 = IsEdns0(d.Req)]

\* the records an upstream answers a question with
upstreamAnswer(q) == <<[Name |-> q.Name, Rrtype |-> q.Qtype, Ttl |-> 10, Data |-> "192.0.2.1"]>>

\* the response replyFromCache builds from an entry: id and question are
\* those of the request
cachedResponse(req, item) ==
    [SetRcode(req, item.Rcode) EXCEPT !.Answer = item.Answer,
                                      !.AuthenticatedData = item.AuthenticatedData]

OtherQuestion == [Name |-> <<"x", "">>, Qtype |-> TypeA]

\* what an exchange with an upstream can give: a response that repeats the
\* question, one with an empty or with another question section, or an error
PrimaryOutcomes == {"ok", "noquestion", "otherquestion", "timeout", "protocol"}
FallbackOutcomes == {"ok", "timeout"}

\* an address of the bogus-nxdomain list
BogusIP == "198.51.100.1"

\* the outcomes of the exchanges of the resolver scenarios: besides the
\* above a response with the CD bit, with another code, with a bogus address
ResolveOutcomes == {"ok", "cd", "nxdomain", "servfail", "bogus", "timeout", "protocol"}
ResolveFallbackOutcomes == {"ok", "bogus", "timeout"}

upstreamResp(req, out) ==
    IF out \in {"timeout", "protocol"} THEN NoMsg
    ELSE [Id |-> req.Id,
          Rcode |-> IF out = "nxdomain" THEN RcodeNameError
                    ELSE IF out = "servfail" THEN RcodeServerFailure ELSE RcodeSuccess,
          CheckingDisabled |-> (out = "cd"),
          AuthenticatedData |-> (out = "signed"),
          Question |-> IF out = "noquestion" THEN <<>>
                       ELSE IF out = "otherquestion" THEN <<OtherQuestion>> ELSE req.Question,
          Answer |-> IF out \in {"nxdomain", "servfail"} THEN <<>>
                     ELSE IF out = "bogus"
                     THEN <<[upstreamAnswer(req.Question[1])[1] EXCEPT !.Data = BogusIP]>>
                     ELSE IF out = "signed"
                     THEN upstreamAnswer(req.Question[1]) \o signature(req.Question[1])
                     ELSE upstreamAnswer(req.Question[1]),
          Ns |-> <<>>, OPT |-> FALSE]

\* Proxy.isBogusNXDomain(resp): an answer of resp is in the bogus-nxdomain list
isBogusNXDomain(resp) ==
    /\ resp # NoMsg
    /\ \E i \in 1..Len(resp.Answer) : resp.Answer[i].Data \in BogusNXDomain

upstreamErr(out) == IF out \in {"timeout", "protocol"} THEN out ELSE None

\* the values rand.Int gives below the number of the upstreams
RandomValues == 0..(IF Len(DefaultUpstreams) > 1 THEN Len(DefaultUpstreams) - 1 ELSE 0)

\* utils.GetRandomValue(min, max): a value of min..max-1, rnd being what the
\* random source gives
GetRandomValue(min, max, rnd) == IF min = max THEN min ELSE min + (rnd % (max - min))

selectUpstreamsPrivateUnconditionally(d, rnd) ==
    LET host == d.Req.Question[1].Name
        upstreams == DefaultUpstreams
        randomIndex == GetRandomValue(0, Len(upstreams), rnd)
    IN  IF Len(host) = 2 /\ (GatewayIPv6 # "" \/ GatewayIPv4 # "")
        THEN [upstreams |-> {"gateway"}, isPrivate |-> TRUE]
        ELSE IF d.RequestedPrivateRDNS # None
        THEN [upstreams |-> PrivateUpstreams, isPrivate |-> TRUE]
        ELSE IF ~d.CustomUpstreamConfig.nil /\ Len(d.CustomUpstreamConfig.upstream) > 0
        THEN [upstreams |-> Range(d.CustomUpstreamConfig.upstream), isPrivate |-> FALSE]
        ELSE [upstreams |-> IF Len(upstreams) > 0 THEN {upstreams[randomIndex + 1]} ELSE {},
              isPrivate |-> FALSE]

selectUpstreamsByRegistry(d, rnd) ==
    LET upstreams == DefaultUpstreams
        randomIndex == GetRandomValue(0, Len(upstreams), rnd)
    IN  IF d.RequestedPrivateRDNS # None
        THEN [upstreams |-> IF UsePrivateRDNS /\ d.IsPrivateClient THEN PrivateUpstreams ELSE {},
              isPrivate |-> TRUE]
        ELSE IF ~d.CustomUpstreamConfig.nil /\ Len(d.CustomUpstreamConfig.upstream) > 0
        THEN [upstreams |-> Range(d.CustomUpstreamConfig.upstream), isPrivate |-> FALSE]
        ELSE [upstreams |-> IF Len(upstreams) > 0 THEN {upstreams[randomIndex + 1]} ELSE {},
              isPrivate |-> FALSE]

\* Proxy.selectUpstreams
selectUpstreams(d, rnd) ==
    LET host == d.Req.Question[1].Name
        upstreams == DefaultUpstreams
        randomIndex == GetRandomValue(0, Len(upstreams), rnd)
    IN  IF Len(host) = 2 /\ (GatewayIPv6 # "" \/ GatewayIPv4 # "")
        THEN [upstreams |-> {"gateway"}, isPrivate |-> TRUE]
        ELSE IF d.RequestedPrivateRDNS # None
        THEN [upstreams |-> IF UsePrivateRDNS /\ d.IsPrivateClient THEN PrivateUpstreams ELSE {},
              isPrivate |-> TRUE]
        ELSE IF ~d.CustomUpstreamConfig.nil /\ Len(d.CustomUpstreamConfig.upstream) > 0
        THEN [upstreams |-> Range(d.CustomUpstreamConfig.upstream), isPrivate |-> FALSE]
        ELSE [upstreams |-> IF Len(upstreams) > 0 THEN {upstreams[randomIndex + 1]} ELSE {},
              isPrivate |-> FALSE]

handleExchangeResultLeavesNil(d, req, resp, u) ==
    IF resp = NoMsg
    THEN [d EXCEPT !.hasEDNS0 = FALSE]
    ELSE [d EXCEPT
            !.Upstream = u,
            !.Res = IF Len(req.Question) > 0 /\ Len(resp.Question) = 0
                    THEN [resp EXCEPT !.Question = <<req.Question[1]>>]
                    ELSE resp]

handleExchangeResultKeepsEDNS0(d, req, resp, u) ==
    IF resp = NoMsg
    THEN [d EXCEPT !.Res = NewMsgSERVFAIL(req)]
    ELSE [d EXCEPT
            !.Upstream = u,
            !.Res = IF Len(req.Question) > 0 /\ Len(resp.Question) = 0
                    THEN [resp EXCEPT !.Question = <<req.Question[1]>>]
                    ELSE resp]

\* Proxy.handleExchangeResult
handleExchangeResult(d, req, resp, u) ==
    IF resp = NoMsg
    THEN [d EXCEPT !.Res = NewMsgSERVFAIL(req), !.hasEDNS0 = FALSE]
    ELSE [d EXCEPT
            !.Upstream = u,
            !.Res = IF Len(req.Question) > 0 /\ Len(resp.Question) = 0
                    THEN [resp EXCEPT !.Question = <<req.Question[1]>>]
                    ELSE resp]

\* Proxy.respond: d.Res, if any, is written to the client
\* the counters of the log: the atomic counters of the package and the keys
\* of the statistics manager SM
numQueries == <<"numQueries">>
numAnswers == <<"numAnswers">>
numCacheHits == <<"numCacheHits">>
numCacheAndBlockedResponses == <<"local", "num_cache_and_blocked_responses">>
resolversKey(upstreamHost) == <<"resolvers", upstreamHost>>

\* m.Response: the QR bit of a message; a reply made by SetReply or SetRcode
\* or received from an upstream has it set
IsResponse(m) == IF "Response" \in DOMAIN m THEN m.Response ELSE TRUE

\* Proxy.mylogDNSMessage(d, messageType): the log line is left out; counted
\* holds the counters that the handling of this message has added one to
mylogDNSMessage(d, messageType) ==
    LET m == IF messageType = "req" THEN d.Req ELSE d.Res
    IN  IF m = NoMsg
        THEN d
        ELSE IF IsResponse(m)
        THEN IF Len(m.Answer) > 0
             THEN IF d.Upstream # None
                  THEN [d EXCEPT !.counted = @ \cup {numAnswers, resolversKey(d.Upstream)}]
                  ELSE [d EXCEPT !.counted = @ \cup {numAnswers, numCacheHits,
                                                      numCacheAndBlockedResponses}]
             ELSE d
        ELSE IF Len(m.Question) > 0
             THEN [d EXCEPT !.counted = @ \cup {numQueries}]
             ELSE d

\* a call of mylogDNSMessage by handleDNSRequest
stageLog(s, messageType) ==
    IF s.d.pc # "run" THEN s ELSE [s EXCEPT !.d = mylogDNSMessage(s.d, messageType)]

respond(d) == [d EXCEPT !.wrote = d.Res, !.pc = "done"]

\* queryDomain of Resolve: set for an A or AAAA question only
isAddressQueryAnyType(q) == TRUE

\* Resolve checks the block list for A and AAAA questions only
isAddressQuery(q) == q.Qtype \in {TypeA, TypeAAAA}

\* queryDomain of Resolve: set from an A or AAAA question only
queryDomainOf(req) ==
    IF isAddressQuery(req.Question[1])
    THEN TrimSuffixDot(req.Question[1].Name)
    ELSE <<"">>

resolveAfterUpstreamCachesLocal(s, ok, err) ==
    LET queryDomain == queryDomainOf(s.d.Req)
        d == s.d
        store == /\ cacheWorks(d) /\ ok /\ ~d.Res.CheckingDisabled
                 /\ ~checkDomain(EfcmHosts, queryDomain).ok
                 /\ isCacheable(d.Res)
    IN  [s EXCEPT
            !.d = respond(mylogDNSMessage(
                      [d EXCEPT !.Res = filterMsg(@, d.adBit, d.doBit),
                                !.cacheStored = store, !.err = err], "res")),
            !.cache = IF store THEN cacheSet(s.cache, cacheItem(cacheKey(d.Req), d.Res))
                      ELSE s.cache]

\* the AAAA answers for a local host become "::"
localAAAA(res, queryDomain) ==
    IF Len(res.Answer) > 0 /\ res.Answer[1].Rrtype = TypeAAAA /\ IsLocalHost(queryDomain)
    THEN [res EXCEPT !.Answer = [i \in 1..Len(res.Answer) |->
                                    [res.Answer[i] EXCEPT !.Data = "::"]]]
    ELSE res

\* the end of Resolve after replyFromUpstream returned (ok, err): the
\* response is cached when the cache works, and the handler responds
resolveAfterUpstream(s, ok, err) ==
    LET queryDomain == queryDomainOf(s.d.Req)
        d == [s.d EXCEPT !.Res = localAAAA(s.d.Res, queryDomain)]
        store == /\ cacheWorks(d) /\ ok /\ ~d.Res.CheckingDisabled
                 /\ ~IsLocalHost(queryDomain)
                 /\ ~checkDomain(EfcmHosts, queryDomain).ok
                 /\ isCacheable(d.Res)
    IN  [s EXCEPT
            !.d = respond(mylogDNSMessage(
                      [d EXCEPT !.Res = filterMsg(@, d.adBit, d.doBit),
                                !.cacheStored = store, !.err = err], "res")),
            !.cache = IF store THEN cacheSet(s.cache, cacheItem(cacheKey(d.Req), d.Res))
                      ELSE s.cache]

stageResolveSkipsCache(s) ==
    IF s.d.pc # "run" \/ s.d.Res # NoMsg THEN s
    ELSE
    LET d == s.d
        q == d.Req.Question[1]
        isAddr == isAddressQuery(q)
        queryDomain == queryDomainOf(d.Req)
        chk == checkDomain(hosts, queryDomain)
        d1 == calcFlagsAndSize([d EXCEPT !.blockChecked = isAddr])
        sel == selectUpstreams(d1, s.rnd)
    IN  IF isAddr /\ chk.ok
        THEN [s EXCEPT !.d = [d1 EXCEPT !.blocked = TRUE, !.Upstream = None,
                                        !.Res = filterMsg(
                                                    blockedResponse(d.Req, q.Qtype,
                                                                    queryDomain),
                                                    d1.adBit, d1.doBit)]]
        ELSE IF sel.upstreams = {}
        THEN resolveAfterUpstream(
                [s EXCEPT !.d = [d1 EXCEPT !.cacheLookup = cacheWorks(d1),
                                           !.Req = IF cacheWorks(d1) THEN addDO(@) ELSE @,
                                           !.isPrivate = sel.isPrivate,
                                           !.Res = NewMsgNXDOMAIN(d.Req)]],
                FALSE, ErrNoUpstreams)
        ELSE [s EXCEPT !.d = [d1 EXCEPT !.cacheLookup = cacheWorks(d1),
                                        !.Req = IF cacheWorks(d1) THEN addDO(@) ELSE @,
                                        !.isPrivate = sel.isPrivate,
                                        !.upstreams = sel.upstreams,
                                        !.Upstream = CHOOSE u \in sel.upstreams : TRUE,
                                        !.pc = "exchange"],
                       !.recSet = IF sel.isPrivate
                                  THEN s.recSet \cup {msgToSignature(d.Req)}
                                  ELSE s.recSet]

\* Resolve up to the exchange with the upstreams: the block list, the cache,
\* the selection of the upstreams
\* Resolve with the cache consulted before the block list
stageResolveCacheFirst(s) ==
    IF s.d.pc # "run" \/ s.d.Res # NoMsg THEN s
    ELSE
    LET d == s.d
        q == d.Req.Question[1]
        isAddr == isAddressQuery(q)
        queryDomain == queryDomainOf(d.Req)
        chk == checkDomain(hosts, queryDomain)
        d1 == calcFlagsAndSize([d EXCEPT !.blockChecked = isAddr])
        sel == selectUpstreams(d1, s.rnd)
    IN  IF cacheWorks(d1) /\ InCache(s.cache, cacheKey(d.Req))
        THEN [s EXCEPT !.d = [d1 EXCEPT !.cacheLookup = TRUE, !.cacheHit = TRUE,
                                        !.Res = filterMsg(
                                                    cachedResponse(d.Req,
                                                        cacheGet(s.cache, cacheKey(d.Req))),
                                                    d1.adBit, d1.doBit)],
                       !.cache = cacheSet(s.cache, cacheGet(s.cache, cacheKey(d.Req)))]
        ELSE IF isAddr /\ chk.ok
        THEN [s EXCEPT !.d = [d1 EXCEPT !.blocked = TRUE, !.Upstream = None,
                                        !.Res = filterMsg(
                                                    blockedResponse(d.Req, q.Qtype,
                                                                    queryDomain),
                                                    d1.adBit, d1.doBit)]]
        ELSE IF sel.upstreams = {}
        THEN resolveAfterUpstream(
                [s EXCEPT !.d = [d1 EXCEPT !.cacheLookup = cacheWorks(d1),
                                           !.Req = IF cacheWorks(d1) THEN addDO(@) ELSE @,
                                           !.isPrivate = sel.isPrivate,
                                           !.Res = NewMsgNXDOMAIN(d.Req)]],
                FALSE, ErrNoUpstreams)
        ELSE [s EXCEPT !.d = [d1 EXCEPT !.cacheLookup = cacheWorks(d1),
                                        !.Req = IF cacheWorks(d1) THEN addDO(@) ELSE @,
                                        !.isPrivate = sel.isPrivate,
                                        !.upstreams = sel.upstreams,
                                        !.Upstream = CHOOSE u \in sel.upstreams : TRUE,
                                        !.pc = "exchange"],
                       !.recSet = IF sel.isPrivate
                                  THEN s.recSet \cup {msgToSignature(d.Req)}
                                  ELSE s.recSet]

stageResolve(s) ==
    IF s.d.pc # "run" \/ s.d.Res # NoMsg THEN s
    ELSE
    LET d == s.d
        q == d.Req.Question[1]
        isAddr == isAddressQuery(q)
        queryDomain == queryDomainOf(d.Req)
        chk == checkDomain(hosts, queryDomain)
        d1 == calcFlagsAndSize([d EXCEPT !.blockChecked = isAddr])
        sel == selectUpstreams(d1, s.rnd)
    IN  IF isAddr /\ chk.ok
        THEN [s EXCEPT !.d = [d1 EXCEPT !.blocked = TRUE, !.Upstream = None,
                                        !.Res = filterMsg(
                                                    blockedResponse(d.Req, q.Qtype,
                                                                    queryDomain),
                                                    d1.adBit, d1.doBit)]]
        ELSE IF cacheWorks(d1) /\ InCache(s.cache, cacheKey(d.Req))
        THEN [s EXCEPT !.d = [d1 EXCEPT !.cacheLookup = TRUE, !.cacheHit = TRUE,
                                        !.Res = filterMsg(
                                                    cachedResponse(d.Req,
                                                        cacheGet(s.cache, cacheKey(d.Req))),
                                                    d1.adBit, d1.doBit)],
                       !.cache = cacheSet(s.cache, cacheGet(s.cache, cacheKey(d.Req)))]
        ELSE IF sel.upstreams = {}
        THEN resolveAfterUpstream(
                [s EXCEPT !.d = [d1 EXCEPT !.cacheLookup = cacheWorks(d1),
                                           !.Req = IF cacheWorks(d1) THEN addDO(@) ELSE @,
                                           !.isPrivate = sel.isPrivate,
                                           !.Res = NewMsgNXDOMAIN(d.Req)]],
                FALSE, ErrNoUpstreams)
        ELSE [s EXCEPT !.d = [d1 EXCEPT !.cacheLookup = cacheWorks(d1),
                                        !.Req = IF cacheWorks(d1) THEN addDO(@) ELSE @,
                                        !.isPrivate = sel.isPrivate,
                                        !.upstreams = sel.upstreams,
                                        !.Upstream = CHOOSE u \in sel.upstreams : TRUE,
                                        !.pc = "exchange"],
                       !.recSet = IF sel.isPrivate
                                  THEN s.recSet \cup {msgToSignature(d.Req)}
                                  ELSE s.recSet]

(***************************************************************************)
(* handleDNSRequest.                                                       *)
(***************************************************************************)
drop(s, why) == [s EXCEPT !.d = [s.d EXCEPT !.pc = "done", !.dropped = why]]

\* a message with the response bit set is dropped
stageResponseBit(s) ==
    IF s.d.pc = "run" /\ s.d.Req.Response THEN drop(s, "response") ELSE s

\* handleBefore: the before-request handler lets the query continue or not
stageBefore(s, cont) ==
    IF s.d.pc # "run" THEN s
    ELSE LET d == [s.d EXCEPT !.IsPrivateClient = s.d.Addr \in PrivateNets,
                              !.beforeRan = TRUE]
         IN  IF cont THEN [s EXCEPT !.d = d] ELSE drop([s EXCEPT !.d = d], "before")

stageRatelimitUnanswered(s) ==
    IF s.d.pc # "run" \/ s.d.Proto # ProtoUDP \/ s.d.Res # NoMsg THEN s
    ELSE LET s1 == [s EXCEPT !.d = [s.d EXCEPT !.rlConsulted = TRUE,
                                               !.ratelimited = isRatelimited(s.tokens, s.d.Addr)],
                             !.tokens = takeToken(s.tokens, s.d.Addr)]
         IN  IF s1.d.ratelimited THEN drop(s1, "ratelimit") ELSE s1

stageRatelimitNoDrop(s) ==
    IF s.d.pc # "run" \/ s.d.Proto # ProtoUDP THEN s
    ELSE [s EXCEPT !.d = [s.d EXCEPT !.rlConsulted = TRUE,
                                     !.ratelimited = isRatelimited(s.tokens, s.d.Addr)],
                   !.tokens = takeToken(s.tokens, s.d.Addr)]

\* d.Proto == ProtoUDP && p.isRatelimited(ip): no reply to a ratelimited client
stageRatelimit(s) ==
    IF s.d.pc # "run" \/ s.d.Proto # ProtoUDP THEN s
    ELSE LET s1 == [s EXCEPT !.d = [s.d EXCEPT !.rlConsulted = TRUE,
                                               !.ratelimited = isRatelimited(s.tokens, s.d.Addr)],
                             !.tokens = takeToken(s.tokens, s.d.Addr)]
         IN  IF s1.d.ratelimited THEN drop(s1, "ratelimit") ELSE s1

\* d.Res = p.validateRequest(d)
stageValidate(s) ==
    IF s.d.pc # "run" THEN s
    ELSE [s EXCEPT !.d = validateRequest(s.d, RefuseAny, s.recSet)]

\* p.respond(d), unless the query waits for its upstream
stageRespond(s) ==
    IF s.d.pc # "run" THEN s ELSE [s EXCEPT !.d = respond(s.d)]

\* another query of a slot waits for an exchange for the key of request m
exchangeOutstanding(m) ==
    \E o \in Slots : /\ ctx[o].pc \in {"exchange", "fallback"}
                      /\ cacheKey(ctx[o].Req) = cacheKey(m)

handleDNSRequestSingleFlight(s, cont) ==
    LET r == stageRespond(stageLog(stageResolve(stageValidate(stageRatelimit(
                 stageBefore(stageResponseBit(stageLog(s, "req")), cont)))), "res"))
    IN  IF r.d.pc = "exchange" /\ exchangeOutstanding(r.d.Req)
        THEN [r EXCEPT !.d = [r.d EXCEPT !.pc = "wait"]]
        ELSE r

handleDNSRequestValidateFirst(s, cont) ==
    stageRespond(stageLog(stageResolve(stageRatelimitUnanswered(stageValidate(
        stageBefore(stageResponseBit(stageLog(s, "req")), cont)))), "res"))

\* Proxy.handleDNSRequest up to the response or to the upstream exchange
handleDNSRequestSteps(s, cont) ==
    stageRespond(stageLog(stageResolve(stageValidate(stageRatelimit(
        stageBefore(stageResponseBit(stageLog(s, "req")), cont)))), "res"))

Shared == [d |-> IdleCtx, tokens |-> tokens, recSet |-> recSet, cache |-> cache, rnd |-> 0]

\* the goroutines that handle no query and take the next one
IdleSlots == {c \in Slots : ctx[c].pc = "idle"}

Commit(c, s) ==
    /\ ctx' = [ctx EXCEPT ![c] = s.d]
    /\ tokens' = s.tokens
    /\ recSet' = s.recSet
    /\ cache' = s.cache

\* a listener hands a message of a client to handleDNSRequest
handleDNSRequest(c, req, proto, addr, cont, rnd) ==
    /\ ctx[c].pc = "idle"
    /\ Commit(c, handleDNSRequestSteps(
            [Shared EXCEPT !.rnd = rnd,
                           !.d = [IdleCtx EXCEPT !.pc = "run", !.Req = req,
                                                 !.received = req,
                                                 !.Proto = proto, !.Addr = addr]], cont))
    /\ UNCHANGED <<matcherVars, configVars>>

exchangeUpstreamsRetryableOnly(c, out) ==
    /\ ctx[c].pc = "exchange"
    /\ LET answer == upstreamResp(ctx[c].Req, out)
           d == [ctx[c] EXCEPT !.exchanged = @ \cup {"primary"},
                               !.queried = @ \cup ctx[c].upstreams,
                               !.replaced = isBogusNXDomain(answer),
                               !.lastErr = upstreamErr(out)]
           resp == IF isBogusNXDomain(answer) THEN NewMsgNXDOMAIN(d.Req) ELSE answer
           err == upstreamErr(out)
       IN  IF err = "timeout" /\ ~d.isPrivate /\ Fallbacks # {}
           THEN /\ ctx' = [ctx EXCEPT ![c] = [d EXCEPT !.pc = "fallback", !.err = err]]
                /\ UNCHANGED <<tokens, recSet, cache>>
           ELSE Commit(c, resolveAfterUpstream(
                    [Shared EXCEPT !.d = handleExchangeResult(d, d.Req, resp, d.Upstream)],
                    resp # NoMsg, err))
    /\ UNCHANGED <<matcherVars, configVars>>

exchangeUpstreamsFallbackForPrivate(c, out) ==
    /\ ctx[c].pc = "exchange"
    /\ LET answer == upstreamResp(ctx[c].Req, out)
           d == [ctx[c] EXCEPT !.exchanged = @ \cup {"primary"},
                               !.queried = @ \cup ctx[c].upstreams,
                               !.replaced = isBogusNXDomain(answer),
                               !.lastErr = upstreamErr(out)]
           resp == IF isBogusNXDomain(answer) THEN NewMsgNXDOMAIN(d.Req) ELSE answer
           err == upstreamErr(out)
       IN  IF err # None /\ Fallbacks # {}
           THEN /\ ctx' = [ctx EXCEPT ![c] = [d EXCEPT !.pc = "fallback", !.err = err]]
                /\ UNCHANGED <<tokens, recSet, cache>>
           ELSE Commit(c, resolveAfterUpstream(
                    [Shared EXCEPT !.d = handleExchangeResult(d, d.Req, resp, d.Upstream)],
                    resp # NoMsg, err))
    /\ UNCHANGED <<matcherVars, configVars>>

\* exchangeUpstreams returns in replyFromUpstream: the fallbacks are asked
\* after an error, otherwise Resolve finishes and the handler responds
exchangeUpstreams(c, out) ==
    /\ ctx[c].pc = "exchange"
    /\ LET answer == upstreamResp(ctx[c].Req, out)
           d == [ctx[c] EXCEPT !.exchanged = @ \cup {"primary"},
                               !.queried = @ \cup ctx[c].upstreams,
                               !.replaced = isBogusNXDomain(answer),
                               !.lastErr = upstreamErr(out)]
           resp == IF isBogusNXDomain(answer) THEN NewMsgNXDOMAIN(d.Req) ELSE answer
           err == upstreamErr(out)
       IN  IF err # None /\ ~d.isPrivate /\ Fallbacks # {}
           THEN /\ ctx' = [ctx EXCEPT ![c] = [d EXCEPT !.pc = "fallback", !.err = err]]
                /\ UNCHANGED <<tokens, recSet, cache>>
           ELSE Commit(c, resolveAfterUpstream(
                    [Shared EXCEPT !.d = handleExchangeResult(d, d.Req, resp, d.Upstream)],
                    resp # NoMsg, err))
    /\ UNCHANGED <<matcherVars, configVars>>

\* upstream.ExchangeParallel(wrappedFallbacks, req) returns
exchangeFallbacks(c, out) ==
    /\ ctx[c].pc = "fallback"
    /\ LET d == [ctx[c] EXCEPT !.exchanged = @ \cup {"fallback"},
                               !.queried = @ \cup Fallbacks,
                               !.lastErr = upstreamErr(out)]
           resp == upstreamResp(d.Req, out)
       IN  Commit(c, resolveAfterUpstream(
               [Shared EXCEPT !.d = handleExchangeResult(d, d.Req, resp,
                                        CHOOSE u \in Fallbacks : TRUE)],
               resp # NoMsg, upstreamErr(out)))
    /\ UNCHANGED <<matcherVars, configVars>>

\* handleDNSRequest for a context whose CustomUpstreamConfig was set by the
\* program that embeds the proxy
handleDNSRequestCustom(c, req, proto, addr, custom, rnd) ==
    /\ ctx[c].pc = "idle"
    /\ Commit(c, handleDNSRequestSteps(
            [Shared EXCEPT !.rnd = rnd,
                           !.d = [IdleCtx EXCEPT !.pc = "run", !.Req = req,
                                                 !.received = req,
                                                 !.CustomUpstreamConfig = custom,
                                                 !.Proto = proto, !.Addr = addr]], TRUE))
    /\ UNCHANGED <<matcherVars, configVars>>

\* the goroutine of the query ends, its context is gone
finish(c) ==
    /\ ctx[c].pc = "done"
    /\ ctx' = [ctx EXCEPT ![c] = IdleCtx]
    /\ UNCHANGED <<matcherVars, configVars, tokens, recSet, cache>>

\* time passes: a bucket gets a token back
refill(ip) ==
    /\ tokens[ip] < MaxTokens
    /\ tokens' = [tokens EXCEPT ![ip] = @ + 1]
    /\ UNCHANGED <<matcherVars, configVars, recSet, cache, ctx>>

\* time passes: a signature of the recursion detector expires
recExpire(sig) ==
    /\ sig \in recSet
    /\ recSet' = recSet \ {sig}
    /\ UNCHANGED <<matcherVars, configVars, tokens, cache, ctx>>

\* time passes: an entry of the cache expires
cacheExpire(k) ==
    /\ InCache(cache, k)
    /\ cache' = Without(cache, k)
    /\ UNCHANGED <<matcherVars, configVars, tokens, recSet, ctx>>

(***************************************************************************)
(* EDNS Client Subnet.  Addresses are sequences of 4 or of 16 bytes.       *)
(***************************************************************************)
\* netutil.IPv4BitLen, netutil.IPv6BitLen
IPv4BitLen == 32
IPv6BitLen == 128
\* the lengths of the network masks setECS uses
defaultECSv4 == 24
defaultECSv6 == 56
\* the UDP size of the OPT record setECS creates
ECSUDPSize == 4096

\* a nil net.IP
NoIP == <<>>
\* a nil *net.IPNet
NoNet == [nil |-> TRUE, IP |-> NoIP, Mask |-> <<>>]

\* the first 12 bytes of an IPv4 address in 16 bytes
v4InV6Prefix == <<0, 0, 0, 0, 0, 0, 0, 0, 0, 0, 255, 255>>

\* net.IP.To4
To4(ip) ==
    IF Len(ip) = 4 THEN ip
    ELSE IF Len(ip) = 16 /\ SubSeq(ip, 1, 12) = v4InV6Prefix THEN SubSeq(ip, 13, 16)
    ELSE NoIP

\* a byte of a mask whose first n bits are set
maskByte(n) == IF n >= 8 THEN 255 ELSE IF n <= 0 THEN 0 ELSE 256 - 2^(8 - n)

\* net.CIDRMask(ones, bits): nil when ones is out of range
CIDRMask(ones, bits) ==
    IF ones < 0 \/ ones > bits THEN <<>>
    ELSE [i \in 1..(bits \div 8) |-> maskByte(ones - 8 * (i - 1))]

\* the number of the bits of a byte of a mask
onesOfByte(b) == CHOOSE n \in 0..8 : maskByte(n) = b

RECURSIVE maskOnes(_, _)
maskOnes(mask, i) ==
    IF i > Len(mask) THEN 0 ELSE onesOfByte(mask[i]) + maskOnes(mask, i + 1)

\* net.IPMask.Size: the number of leading ones, 0 for a nil mask
MaskSize(mask) == maskOnes(mask, 1)

\* a byte of an address under a byte of a mask
byteAnd(b, m) == b - (b % 2^(8 - onesOfByte(m)))

\* net.IP.Mask(mask): nil when the lengths differ
IPMask(ip, mask) ==
    IF Len(ip) # Len(mask) \/ Len(ip) = 0 THEN NoIP
    ELSE [i \in 1..Len(ip) |-> byteAnd(ip[i], mask[i])]

\* registries of special-purpose addresses of RFC 6890: 10.0.0.0/8,
\* 192.168.0.0/16, 203.0.113.0/24, 2001:db8::/32
SpecialPurposeNets ==
    {[IP |-> <<10, 0, 0, 0>>, Ones |-> 8],
     [IP |-> <<192, 168, 0, 0>>, Ones |-> 16],
     [IP |-> <<203, 0, 113, 0>>, Ones |-> 24],
     [IP |-> <<32, 1, 13, 184, 0, 0, 0, 0, 0, 0, 0, 0, 0, 0, 0, 0>>, Ones |-> 32]}

\* netutil.IsSpecialPurpose(addr)
IsSpecialPurpose(addr) ==
    \E n \in SpecialPurposeNets :
        /\ Len(n.IP) = Len(addr)
        /\ IPMask(addr, CIDRMask(n.Ones, 8 * Len(addr))) = n.IP

\* dns.EDNS0SUBNET and the code of another option
EDNS0SUBNET == "subnet"
EDNS0COOKIE == "cookie"

\* a message without an OPT record
NoOPT == [present |-> FALSE, UDPSize |-> 0, Option |-> <<>>]

\* ecsFromMsg(m): the subnet and the scope of the first ECS option of m with
\* family 1 or 2
ecsFromMsg(m) ==
    LET opt == m.Opt
        subnets == {i \in 1..Len(opt.Option) :
                        /\ opt.Option[i].Code = EDNS0SUBNET
                        /\ opt.Option[i].Family \in {1, 2}}
    IN  IF ~opt.present \/ subnets = {}
        THEN [subnet |-> NoNet, scope |-> 0]
        ELSE LET sn == opt.Option[CHOOSE i \in subnets : \A j \in subnets : i <= j]
             IN  [subnet |->
                     [nil |-> FALSE,
                      IP |-> IF sn.Family = 1 THEN To4(sn.Address) ELSE sn.Address,
                      Mask |-> CIDRMask(sn.SourceNetmask,
                                        IF sn.Family = 1 THEN IPv4BitLen ELSE IPv6BitLen)],
                  scope |-> sn.SourceScope]

\* setECS(m, ip, scope): the message with the option and the subnet
setECS(m, ip, scope) ==
    LET ip4 == To4(ip)
        family == IF ip4 # NoIP THEN 1 ELSE 2
        netmask == IF ip4 # NoIP THEN defaultECSv4 ELSE defaultECSv6
        mask == CIDRMask(netmask, IF ip4 # NoIP THEN IPv4BitLen ELSE IPv6BitLen)
        subnet == [nil |-> FALSE, IP |-> IPMask(IF ip4 # NoIP THEN ip4 ELSE ip, mask),
                   Mask |-> mask]
        e == [Code |-> EDNS0SUBNET, Family |-> family, SourceNetmask |-> netmask,
              SourceScope |-> scope, Address |-> subnet.IP]
    IN  [m |-> IF m.Opt.present
               THEN [m EXCEPT !.Opt.Option = Append(@, e)]
               ELSE [m EXCEPT !.Opt = [present |-> TRUE, UDPSize |-> ECSUDPSize,
                                       Option |-> <<e>>]],
         subnet |-> subnet]

processECSAnyAddress(d, cliIP) ==
    LET reqECS == ecsFromMsg(d.Req).subnet
        ip == IF cliIP = NoIP THEN d.Addr ELSE cliIP
        set == setECS(d.Req, ip, 0)
    IN  IF ~reqECS.nil /\ MaskSize(reqECS.Mask) # 0
        THEN [d EXCEPT !.ReqECS = reqECS]
        ELSE [d EXCEPT !.ReqECS = set.subnet, !.Req = set.m]

\* DNSContext.processECS(cliIP): the context with ReqECS and the request
\* that goes upstream
processECS(d, cliIP) ==
    LET reqECS == ecsFromMsg(d.Req).subnet
        ip == IF cliIP = NoIP THEN d.Addr ELSE cliIP
        cliAddr == ip
        set == setECS(d.Req, ip, 0)
    IN  IF ~reqECS.nil /\ MaskSize(reqECS.Mask) # 0
        THEN [d EXCEPT !.ReqECS = reqECS]
        ELSE IF ~IsSpecialPurpose(cliAddr)
        THEN [d EXCEPT !.ReqECS = set.subnet, !.Req = set.m]
        ELSE d

\* the value of ecs in a proxy without EnableEDNSClientSubnet
NoECS == [pc |-> "off", EDNSAddr |-> NoIP,
          d |-> [Req |-> [Opt |-> NoOPT], Addr |-> NoIP, ReqECS |-> NoNet]]

\* the addresses of the clients: a public, a private and a documentation
\* IPv4 address, a public and a documentation IPv6 address
ECSClientAddrs ==
    {<<93, 184, 216, 34>>, <<192, 168, 1, 7>>, <<203, 0, 113, 7>>,
     <<38, 6, 71, 0, 0, 0, 0, 18, 52, 0, 0, 0, 0, 0, 0, 17>>,
     <<32, 1, 13, 184, 0, 0, 0, 0, 0, 0, 0, 0, 0, 0, 0, 1>>}

\* p.EDNSAddr: not configured, a public or a documentation IPv6 address
EDNSAddrs ==
    {NoIP,
     <<42, 0, 20, 80, 64, 1, 8, 9, 10, 0, 0, 0, 0, 0, 32, 14>>,
     <<32, 1, 13, 184, 0, 0, 0, 0, 0, 0, 0, 0, 0, 0, 0, 2>>}

CookieOption ==
    [Code |-> EDNS0COOKIE, Family |-> 0, SourceNetmask |-> 0, SourceScope |-> 0,
     Address |-> NoIP]

\* the ECS options of the clients: with a prefix of 24, 0 and 56 bits
RequestECSOptions ==
    {[Code |-> EDNS0SUBNET, Family |-> 1, SourceNetmask |-> 24, SourceScope |-> 0,
      Address |-> <<198, 18, 7, 0>>],
     [Code |-> EDNS0SUBNET, Family |-> 1, SourceNetmask |-> 0, SourceScope |-> 0,
      Address |-> <<0, 0, 0, 0>>],
     [Code |-> EDNS0SUBNET, Family |-> 2, SourceNetmask |-> 56, SourceScope |-> 0,
      Address |-> <<38, 6, 71, 0, 0, 0, 0, 0, 0, 0, 0, 0, 0, 0, 0, 0>>]}

\* the requests: without OPT, with an OPT without options, with a cookie,
\* with an ECS option alone or after a cookie
ECSRequests ==
    {[Opt |-> NoOPT]}
    \cup {[Opt |-> [present |-> TRUE, UDPSize |-> 1232, Option |-> o]] :
            o \in {<<>>, <<CookieOption>>}
                  \cup {<<e>> : e \in RequestECSOptions}
                  \cup {<<CookieOption, e>> : e \in RequestECSOptions}}

ECSCalls ==
    [pc : {"call"}, EDNSAddr : EDNSAddrs,
     d : [Req : ECSRequests, Addr : ECSClientAddrs, ReqECS : {NoNet}]]

\* Resolve calls dctx.processECS(p.EDNSAddr) when EnableEDNSClientSubnet is set
processECSCall ==
    /\ ecs.pc = "call"
    /\ ecs' = [ecs EXCEPT !.pc = "sent", !.d = processECS(ecs.d, ecs.EDNSAddr)]
    /\ UNCHANGED <<matcherVars, RefuseAny, conf, tokens, recSet, cache, ctx, loader, srv, sm,
                 pdm>>

\* the next query arrives
nextECSCall(call) ==
    /\ ecs.pc = "sent"
    /\ ecs' = call
    /\ UNCHANGED <<matcherVars, RefuseAny, conf, tokens, recSet, cache, ctx, loader, srv, sm,
                 pdm>>

(***************************************************************************)
(* Start and Shutdown.                                                     *)
(***************************************************************************)
\* the goroutines that call Start and Shutdown
Callers == {"k1", "k2"}

\* conf.UDPListenAddr and conf.TCPListenAddr; a listener is named by the
\* address it is bound to
UDPListenAddr == <<"udp:53">>
TCPListenAddr == <<"tcp:53">>

\* a nil error, and the errors of Start and Shutdown
NilErr == [msg |-> None, errs |-> <<>>]
ErrAlreadyStarted == [msg |-> "server has been already started", errs |-> <<>>]
ErrListenAddrs == [msg |-> "invalid listen addrs", errs |-> <<>>]
ErrConfiguring == [msg |-> "configuring listeners", errs |-> <<>>]
ErrStopping(errs) == [msg |-> "stopping dns proxy server", errs |-> errs]

\* a caller that is in neither call
NoCall == [pc |-> "idle", op |-> None, err |-> NilErr, inflight |-> {}]

\* the proxy New returns: not started, no listeners.  mu is the holder of
\* the lock of the Proxy and open the sockets that are bound; of the last
\* Shutdown that closed anything, closed are the closers it called Close
\* on, failed those whose Close failed and stopErr the error it returned
NewProxy ==
    [started |-> FALSE, udpListen |-> <<>>, tcpListen |-> <<>>, mu |-> None,
     open |-> {}, closed |-> {}, failed |-> {}, stopErr |-> NilErr,
     call |-> [k \in Callers |-> NoCall]]

\* the queries being handled
InFlight == {c \in Slots : ctx[c].pc # "idle"}

\* p.Lock() without the mutual exclusion
LockUnguarded(k, op) ==
    /\ srv.call[k].pc = "idle"
    /\ srv' = [srv EXCEPT !.mu = k,
                          !.call[k] = [pc |-> "locked", op |-> op, err |-> NilErr,
                                       inflight |-> InFlight]]
    /\ UNCHANGED <<matcherVars, RefuseAny, conf, tokens, recSet, cache, ctx, ecs, loader, sm,
                 pdm>>

\* Start or Shutdown is called and takes the lock: p.Lock()
Lock(k, op) ==
    /\ srv.call[k].pc = "idle"
    /\ srv.mu = None
    /\ srv' = [srv EXCEPT !.mu = k,
                          !.call[k] = [pc |-> "locked", op |-> op, err |-> NilErr,
                                       inflight |-> InFlight]]
    /\ UNCHANGED <<matcherVars, RefuseAny, conf, tokens, recSet, cache, ctx, ecs, loader, sm,
                 pdm>>

\* the deferred p.Unlock() with the returned error
Return(s, k, err) == [s EXCEPT !.mu = None, !.call[k].pc = "done", !.call[k].err = err]

\* Start: the test of p.started
StartCheck(k) ==
    /\ srv.call[k].pc = "locked"
    /\ srv.call[k].op = "Start"
    /\ srv' = IF srv.started
              THEN Return(srv, k, ErrAlreadyStarted)
              ELSE [srv EXCEPT !.call[k].pc = "configure"]
    /\ UNCHANGED <<matcherVars, RefuseAny, conf, tokens, recSet, cache, ctx, ecs, loader, sm,
                 pdm>>

\* the outcomes of validateListenAddrs and configureListeners: the
\* addresses are invalid, creating the UDP or the TCP listeners fails, or
\* all listeners are created
StartOutcomes == {"invalid", "udp", "tcp", "ok"}

\* the listeners created for addrs
createListeners(addrs) == addrs

\* an address that is bound cannot be bound again
CanListen(addrs) == Range(addrs) \cap srv.open = {}

\* Start after the test: validateListenAddrs, configureListeners,
\* startListeners, p.started = true
StartConfigure(k, out) ==
    /\ srv.call[k].pc = "configure"
    /\ out \in {"tcp", "ok"} => CanListen(UDPListenAddr)
    /\ out = "ok" => CanListen(TCPListenAddr)
    /\ srv' =
        IF out = "invalid" THEN Return(srv, k, ErrListenAddrs)
        ELSE IF out = "udp" THEN Return(srv, k, ErrConfiguring)
        ELSE IF out = "tcp"
        THEN Return([srv EXCEPT !.udpListen = @ \o createListeners(UDPListenAddr),
                                !.open = @ \cup Range(UDPListenAddr)],
                    k, ErrConfiguring)
        ELSE Return([srv EXCEPT !.udpListen = @ \o createListeners(UDPListenAddr),
                                !.tcpListen = @ \o createListeners(TCPListenAddr),
                                !.open = @ \cup Range(UDPListenAddr) \cup Range(TCPListenAddr),
                                !.started = TRUE],
                    k, NilErr)
    /\ UNCHANGED <<matcherVars, RefuseAny, conf, tokens, recSet, cache, ctx, ecs, loader, sm,
                 pdm>>

\* closeAll(errs, closers...): Close fails for the closers in failing
closeAll(errs, closers, failing) == errs \o SelectSeq(closers, LAMBDA c : c \in failing)

\* the upstream configurations Shutdown closes
UpstreamClosers ==
    <<"UpstreamConfig">>
    \o (IF UsePrivateRDNS THEN <<"PrivateRDNSUpstreamConfig">> ELSE <<>>)
    \o (IF Fallbacks # {} THEN <<"Fallbacks">> ELSE <<>>)

Closers == Range(UDPListenAddr) \cup Range(TCPListenAddr) \cup Range(UpstreamClosers)

\* the closers whose Close fails in one Shutdown: none, one, or all
CloseFailures == {{}} \cup {{c} : c \in Closers} \cup {Closers}

\* the errors Shutdown collects: the listeners in the order TCP, UDP, then
\* the upstream configurations
closeErrors(s, failing) ==
    closeAll(closeAll(closeAll(<<>>, s.tcpListen, failing), s.udpListen, failing),
             UpstreamClosers, failing)

\* the state after the Close calls of Shutdown on the closers in closers
afterClose(s, closers, failing) ==
    [s EXCEPT !.open = @ \ closers, !.closed = closers, !.failed = failing \cap closers]

ShutdownKeepsStarted(k, failing) ==
    /\ srv.call[k].pc = "locked"
    /\ srv.call[k].op = "Shutdown"
    /\ srv' =
        IF ~srv.started THEN Return(srv, k, NilErr)
        ELSE LET errs == closeErrors(srv, failing)
                 s == afterClose(srv, Range(srv.tcpListen) \cup Range(srv.udpListen)
                                      \cup Range(UpstreamClosers), failing)
             IN  IF Len(errs) > 0
                 THEN Return([s EXCEPT !.stopErr = ErrStopping(errs)], k, ErrStopping(errs))
                 ELSE Return([s EXCEPT !.tcpListen = <<>>, !.udpListen = <<>>,
                                       !.started = FALSE, !.stopErr = NilErr], k, NilErr)
    /\ UNCHANGED <<matcherVars, RefuseAny, conf, tokens, recSet, cache, ctx, ecs, loader, sm,
                 pdm>>

ShutdownLeavesUDP(k, failing) ==
    /\ srv.call[k].pc = "locked"
    /\ srv.call[k].op = "Shutdown"
    /\ srv' =
        IF ~srv.started THEN Return(srv, k, NilErr)
        ELSE LET errs == closeAll(closeAll(<<>>, srv.tcpListen, failing),
                                  UpstreamClosers, failing)
                 err == IF Len(errs) > 0 THEN ErrStopping(errs) ELSE NilErr
                 s == afterClose(srv, Range(srv.tcpListen) \cup Range(UpstreamClosers),
                                 failing)
             IN  Return([s EXCEPT !.tcpListen = <<>>, !.udpListen = <<>>,
                                  !.started = FALSE, !.stopErr = err], k, err)
    /\ UNCHANGED <<matcherVars, RefuseAny, conf, tokens, recSet, cache, ctx, ecs, loader, sm,
                 pdm>>

\* Shutdown under the lock: every listener and every upstream
\* configuration is closed, the listeners are set to nil, p.started = false
Shutdown(k, failing) ==
    /\ srv.call[k].pc = "locked"
    /\ srv.call[k].op = "Shutdown"
    /\ srv' =
        IF ~srv.started THEN Return(srv, k, NilErr)
        ELSE LET errs == closeErrors(srv, failing)
                 err == IF Len(errs) > 0 THEN ErrStopping(errs) ELSE NilErr
                 s == afterClose(srv, Range(srv.tcpListen) \cup Range(srv.udpListen)
                                      \cup Range(UpstreamClosers), failing)
             IN  Return([s EXCEPT !.tcpListen = <<>>, !.udpListen = <<>>,
                                  !.started = FALSE, !.stopErr = err], k, err)
    /\ UNCHANGED <<matcherVars, RefuseAny, conf, tokens, recSet, cache, ctx, ecs, loader, sm,
                 pdm>>

\* the caller goes on after Start or Shutdown has returned
Returned(k) ==
    /\ srv.call[k].pc = "done"
    /\ srv' = [srv EXCEPT !.call[k] = NoCall]
    /\ UNCHANGED <<matcherVars, RefuseAny, conf, tokens, recSet, cache, ctx, ecs, loader, sm,
                 pdm>>

\* the packet loops that startListeners started hand queries to
\* handleDNSRequest while their listener is open
Listening(proto) ==
    /\ srv.started
    /\ IF proto = ProtoUDP THEN srv.udpListen # <<>> ELSE srv.tcpListen # <<>>

(***************************************************************************)
(* StatsManager: the statistics store SM.  A key is the sequence of its    *)
(* parts, what strings.Split(key, "::") returns.  The nested maps are kept *)
(* as a function from the paths of the tree to their nodes: a map or a     *)
(* value.                                                                  *)
(***************************************************************************)
MapNode == [isMap |-> TRUE, value |-> 0]
Leaf(v) == [isMap |-> FALSE, value |-> v]

\* the results of a call: a value, a nested map, nil, or a panic of the
\* type assertion stats[keyParts[i]].(map[string]any)
Panic == [kind |-> "panic", value |-> 0]
Nil == [kind |-> "nil", value |-> 0]
Found(node) == IF node.isMap THEN [kind |-> "map", value |-> 0]
               ELSE [kind |-> "value", value |-> node.value]

Prefix(k, i) == SubSeq(k, 1, i)

\* the loop over keyParts[0 .. len-2]: it ends at the first part that is
\* missing or whose entry is no map
walk(stats, k) ==
    LET stops == {i \in 1..(Len(k) - 1) :
                    Prefix(k, i) \notin DOMAIN stats \/ ~stats[Prefix(k, i)].isMap}
    IN  IF stops = {} THEN "ok"
        ELSE LET i == CHOOSE x \in stops : \A y \in stops : x <= y
             IN  IF Prefix(k, i) \notin DOMAIN stats THEN "missing" ELSE "panic"

\* the paths below k
Below(stats, k) ==
    {p \in DOMAIN stats : Len(p) > Len(k) /\ Prefix(p, Len(k)) = k}

\* StatsManager.Set(key, value): the store after the call; the missing maps
\* on the path are made, what was stored at the key is replaced
SetStats(stats, k, v) ==
    LET made == {Prefix(k, i) : i \in 1..(Len(k) - 1)}
    IN  [p \in ((DOMAIN stats \ Below(stats, k)) \cup made \cup {k}) |->
            IF p = k THEN Leaf(v)
            ELSE IF p \in DOMAIN stats THEN stats[p] ELSE MapNode]

\* StatsManager.Get(key)
GetStats(stats, k) ==
    IF walk(stats, k) = "panic" THEN Panic
    ELSE IF walk(stats, k) = "missing" THEN Nil
    ELSE IF k \in DOMAIN stats THEN Found(stats[k]) ELSE Nil

\* StatsManager.Exists(key)
ExistsStats(stats, k) ==
    IF walk(stats, k) = "panic" THEN Panic
    ELSE [kind |-> "bool",
          value |-> IF walk(stats, k) = "ok" /\ k \in DOMAIN stats THEN 1 ELSE 0]

NoStats == [p \in {} |-> MapNode]

NoStatsCall == [op |-> "none", key |-> <<>>, value |-> 0, res |-> Nil]

\* NewStatsManager: the empty store; besides the store sm keeps the last
\* call with its result and the keys that Set was called with
\* a goroutine that is not counting a blocked response
IdleInc == [pc |-> "idle", key |-> <<>>, read |-> 0]

NewStatsManager ==
    [stats |-> NoStats, pc |-> "run", last |-> NoStatsCall, wasSet |-> {},
     inc |-> [g \in Goroutines |-> IdleInc], started |-> 0, produced |-> 0]

\* the keys and the values of the calls
StatParts == {"a", "b"}
StatKeys == {<<x>> : x \in StatParts} \cup {<<x, y>> : x, y \in StatParts}
StatValues == {1, 2}

\* a call of SM.Set; a panic ends the program
Set(k, v) ==
    /\ sm.pc = "run"
    /\ sm' = IF walk(sm.stats, k) = "panic"
             THEN [sm EXCEPT !.pc = "panic",
                             !.last = [op |-> "Set", key |-> k, value |-> v, res |-> Panic]]
             ELSE [sm EXCEPT !.stats = SetStats(sm.stats, k, v),
                             !.wasSet = @ \cup {k},
                             !.last = [op |-> "Set", key |-> k, value |-> v, res |-> Nil]]
    /\ UNCHANGED <<matcherVars, RefuseAny, conf, tokens, recSet, cache, ctx, ecs, loader, srv,
                 pdm>>

\* a call of SM.Get
Get(k) ==
    /\ sm.pc = "run"
    /\ sm' = [sm EXCEPT !.pc = IF GetStats(sm.stats, k) = Panic THEN "panic" ELSE @,
                        !.last = [op |-> "Get", key |-> k, value |-> 0,
                                  res |-> GetStats(sm.stats, k)]]
    /\ UNCHANGED <<matcherVars, RefuseAny, conf, tokens, recSet, cache, ctx, ecs, loader, srv,
                 pdm>>

\* a call of SM.Exists
Exists(k) ==
    /\ sm.pc = "run"
    /\ sm' = [sm EXCEPT !.pc = IF ExistsStats(sm.stats, k) = Panic THEN "panic" ELSE @,
                        !.last = [op |-> "Exists", key |-> k, value |-> 0,
                                  res |-> ExistsStats(sm.stats, k)]]
    /\ UNCHANGED <<matcherVars, RefuseAny, conf, tokens, recSet, cache, ctx, ecs, loader, srv,
                 pdm>>

\* the counters of the blocked responses: all of them, and those of one
\* name of one list
BlockedResponsesKey == <<"blocked_domains", "blocked_responses">>
BlockedDomainKey == <<"blocked_domains", "domains", "list", "a.b">>

\* the value of a counter, 0 when it was never set
CounterValue(stats, k) == IF k \in DOMAIN stats THEN stats[k].value ELSE 0

\* Resolve finds the name of an address query in the block list and goes on
\* to count the response; inc[g] is the position of goroutine g in the two
\* increments, sm.started the number of blocked queries taken
resolveBlocked(g) ==
    /\ sm.inc[g].pc = "idle"
    /\ sm.started < MaxBlocked
    /\ sm' = [sm EXCEPT !.inc[g] = [pc |-> "exists", key |-> BlockedResponsesKey, read |-> 0],
                        !.started = @ + 1]
    /\ UNCHANGED <<matcherVars, RefuseAny, conf, tokens, recSet, cache, ctx, ecs, loader, srv,
                 pdm>>

\* if SM.Exists(key): the mutex of the store is held for this call only
countExists(g) ==
    /\ sm.inc[g].pc = "exists"
    /\ sm' = [sm EXCEPT !.inc[g].pc =
                            IF ExistsStats(sm.stats, sm.inc[g].key).value = 1
                            THEN "get" ELSE "setOne"]
    /\ UNCHANGED <<matcherVars, RefuseAny, conf, tokens, recSet, cache, ctx, ecs, loader, srv,
                 pdm>>

\* SM.Get(key).(uint64), the argument of the Set that follows
countGet(g) ==
    /\ sm.inc[g].pc = "get"
    /\ sm' = [sm EXCEPT !.inc[g].pc = "set",
                        !.inc[g].read = GetStats(sm.stats, sm.inc[g].key).value]
    /\ UNCHANGED <<matcherVars, RefuseAny, conf, tokens, recSet, cache, ctx, ecs, loader, srv,
                 pdm>>

\* SM.Set(key, value+1), or SM.Set(key, uint64(1)) when Exists was false;
\* after the second counter the blocked response is made
countSet(g) ==
    /\ sm.inc[g].pc \in {"set", "setOne"}
    /\ LET k == sm.inc[g].key
           v == IF sm.inc[g].pc = "set" THEN sm.inc[g].read + 1 ELSE 1
       IN  sm' = [sm EXCEPT !.stats = SetStats(sm.stats, k, v),
                            !.inc[g] = IF k = BlockedResponsesKey
                                       THEN [pc |-> "exists", key |-> BlockedDomainKey,
                                             read |-> 0]
                                       ELSE IdleInc,
                            !.produced = IF k = BlockedResponsesKey THEN @ ELSE @ + 1]
    /\ UNCHANGED <<matcherVars, RefuseAny, conf, tokens, recSet, cache, ctx, ecs, loader, srv,
                 pdm>>

(***************************************************************************)
(* ParkedDomainsManager.  Names are strings of characters; a caller is a   *)
(* goroutine that calls a method of the manager.                           *)
(***************************************************************************)
\* the names of the parked domains files: "a.b" and "*.b"
ParkedAB == <<"a", ".", "b">>
ParkedStarB == <<"*", ".", "b">>

\* regexp.Compile(domain) fails for an expression that starts with the
\* repetition operator
regexpCompileFails(domain) == Len(domain) > 0 /\ domain[1] = "*"

\* (*regexp.Regexp).MatchString: the expression, letters and ".", matches
\* somewhere in s
MatchString(re, s) ==
    \/ Len(re) = 0
    \/ \E i \in 1..Len(s) :
            /\ i + Len(re) - 1 <= Len(s)
            /\ \A j \in 1..Len(re) : re[j] = "." \/ re[j] = s[i + j - 1]

\* the loop of CheckDomain over p.domains
CheckDomainParked(domains, domain) ==
    \E i \in 1..Len(domains) : MatchString(domains[i], domain)

\* a caller outside the manager
NoParkedCall ==
    [pc |-> "idle", op |-> "none", file |-> "none", listed |-> <<>>, rest |-> <<>>,
     res |-> FALSE]

\* NewParkedDomainsManager(): no domains, the mutex free
NewParkedDomainsManager ==
    [domains |-> <<>>, numDomains |-> 0, mux |-> "none",
     call |-> [k \in Callers |-> NoParkedCall]]

\* the files: missing, unreadable, no JSON, and JSON documents that list no
\* domain, one domain, two domains
ParkedFiles ==
    {[kind |-> "missing", domains |-> <<>>],
     [kind |-> "unreadable", domains |-> <<>>],
     [kind |-> "invalid", domains |-> <<>>],
     [kind |-> "json", domains |-> <<>>],
     [kind |-> "json", domains |-> <<ParkedAB>>],
     [kind |-> "json", domains |-> <<ParkedStarB, ParkedAB>>]}

\* the names callers ask for
ParkedQueries == {ParkedAB, <<"a", "a", "b">>, <<"b">>}

\* caller k calls LoadParkedDomains(parkedDomainsPath)
LoadParkedDomains(k, file) ==
    /\ pdm.call[k].pc = "idle"
    /\ pdm' = [pdm EXCEPT !.call[k] = [pc |-> "loadLock", op |-> "Load", file |-> file.kind,
                                       listed |-> file.domains, rest |-> file.domains,
                                       res |-> FALSE]]
    /\ UNCHANGED <<matcherVars, RefuseAny, conf, tokens, recSet, cache, ctx, ecs, loader, srv,
                 sm>>

\* p.mux.Lock() of LoadParkedDomains, then the file is looked for, opened,
\* read and parsed; a return runs the deferred p.mux.Unlock()
loadParkedLocked(k) ==
    /\ pdm.call[k].pc = "loadLock"
    /\ pdm.mux = "none"
    /\ pdm' = IF pdm.call[k].file = "json"
              THEN [pdm EXCEPT !.mux = k, !.call[k].pc = "loop"]
              ELSE [pdm EXCEPT !.call[k].pc = "done"]
    /\ UNCHANGED <<matcherVars, RefuseAny, conf, tokens, recSet, cache, ctx, ecs, loader, srv,
                 sm>>

\* for _, domain := range domains.Domains { p.AddDomain(domain.Name, domain) }
\* and the return after the loop
loadParkedNext(k) ==
    /\ pdm.call[k].pc = "loop"
    /\ pdm' = IF pdm.call[k].rest = <<>>
              THEN [pdm EXCEPT !.mux = "none", !.call[k].pc = "done"]
              ELSE [pdm EXCEPT !.call[k].pc = "addLock"]
    /\ UNCHANGED <<matcherVars, RefuseAny, conf, tokens, recSet, cache, ctx, ecs, loader, srv,
                 sm>>

\* caller k calls AddDomain(domain, soa)
AddDomain(k, domain) ==
    /\ pdm.call[k].pc = "idle"
    /\ Len(pdm.domains) < MaxParked
    /\ pdm' = [pdm EXCEPT !.call[k] = [pc |-> "addLock", op |-> "Add", file |-> "none",
                                       listed |-> <<>>, rest |-> <<domain>>,
                                       res |-> FALSE]]
    /\ UNCHANGED <<matcherVars, RefuseAny, conf, tokens, recSet, cache, ctx, ecs, loader, srv,
                 sm>>

\* p.mux.Lock() of AddDomain and its body: host.Get(0) is a *regexp.Regexp
\* and never equals the string domain, so the loop over p.domains returns
\* nothing; the expression is compiled and appended; p.mux.Unlock()
addDomainLocked(k) ==
    /\ pdm.call[k].pc = "addLock"
    /\ pdm.mux = "none"
    /\ LET domain == Head(pdm.call[k].rest)
           after == IF pdm.call[k].op = "Load" THEN "loop" ELSE "done"
       IN  pdm' = IF regexpCompileFails(domain)
                  THEN [pdm EXCEPT !.call[k].pc = after, !.call[k].rest = Tail(@)]
                  ELSE [pdm EXCEPT !.domains = Append(@, domain),
                                   !.numDomains = @ + 1,
                                   !.call[k].pc = after,
                                   !.call[k].rest = Tail(@)]
    /\ UNCHANGED <<matcherVars, RefuseAny, conf, tokens, recSet, cache, ctx, ecs, loader, srv,
                 sm>>

\* caller k calls CheckDomain(domain)
CheckDomain(k, domain) ==
    /\ pdm.call[k].pc = "idle"
    /\ pdm' = [pdm EXCEPT !.call[k] = [pc |-> "checkLock", op |-> "Check", file |-> "none",
                                       listed |-> <<>>, rest |-> <<domain>>,
                                       res |-> FALSE]]
    /\ UNCHANGED <<matcherVars, RefuseAny, conf, tokens, recSet, cache, ctx, ecs, loader, srv,
                 sm>>

\* p.mux.Lock() of CheckDomain, the loop over p.domains, p.mux.Unlock()
checkDomainLocked(k) ==
    /\ pdm.call[k].pc = "checkLock"
    /\ pdm.mux = "none"
    /\ pdm' = [pdm EXCEPT !.call[k].pc = "done",
                          !.call[k].res = CheckDomainParked(pdm.domains,
                                                            Head(pdm.call[k].rest))]
    /\ UNCHANGED <<matcherVars, RefuseAny, conf, tokens, recSet, cache, ctx, ecs, loader, srv,
                 sm>>

\* the call of caller k has returned
parkedReturn(k) ==
    /\ pdm.call[k].pc = "done"
    /\ pdm' = [pdm EXCEPT !.call[k] = NoParkedCall]
    /\ UNCHANGED <<matcherVars, RefuseAny, conf, tokens, recSet, cache, ctx, ecs, loader, srv,
                 sm>>

(***************************************************************************)
(* Specifications.                                                         *)
(***************************************************************************)
\* the lines of the block lists the proxy loads
BlockLines == {<<"*", "b">>}

InitProxy ==
    /\ RefuseAny \in BOOLEAN
    /\ conf = DefaultConf
    /\ ecs = NoECS
    /\ tokens = [ip \in Addrs |-> MaxTokens]
    /\ recSet = {}
    /\ cache = <<>>
    /\ ctx = [c \in Workers |-> IdleCtx]
    /\ loader = NoLoad
    /\ srv = NewProxy
    /\ sm = NewStatsManager
    /\ pdm = NewParkedDomainsManager

Init == newBlockedDomainsManger /\ InitProxy

Next ==
    \/ \E c \in IdleSlots, req \in Requests, proto \in Protos, addr \in Addrs,
          cont \in BOOLEAN, rnd \in RandomValues :
            handleDNSRequest(c, req, proto, addr, cont, rnd)
    \/ \E c \in Slots, out \in PrimaryOutcomes : exchangeUpstreams(c, out)
    \/ \E c \in Slots, out \in FallbackOutcomes : exchangeFallbacks(c, out)
    \/ \E c \in Slots : finish(c)
    \/ \E ip \in Addrs : refill(ip)
    \/ \E sig \in recSet : recExpire(sig)
    \/ \E i \in 1..Len(cache) : cacheExpire(cache[i].key)
    \/ \E p \in BlockLines : addDomain(p) /\ UNCHANGED proxyVars
    \/ clear /\ UNCHANGED proxyVars

Spec == Init /\ [][Next]_vars

\* the resolver under the configurations below: queries over TCP for names
\* that are cached, excluded from caching or local, with and without the CD
\* bit and EDNS0, and reverse lookups
NoUpstreamsConf ==
    [UsePrivateRDNS |-> FALSE, Upstreams |-> <<>>, Fallbacks |-> {"fallback"},
     UpstreamMode |-> UpstreamModeLoadBalance, BogusNXDomain |-> {},
     GatewayIPv4 |-> "", CacheEnabled |-> TRUE]
ParallelConf ==
    [UsePrivateRDNS |-> TRUE, Upstreams |-> <<"u1", "u2">>, Fallbacks |-> {"fallback"},
     UpstreamMode |-> UpstreamModeParallel, BogusNXDomain |-> {BogusIP},
     GatewayIPv4 |-> "", CacheEnabled |-> TRUE]
NoFallbacksConf ==
    [UsePrivateRDNS |-> TRUE, Upstreams |-> <<"default">>, Fallbacks |-> {},
     UpstreamMode |-> UpstreamModeLoadBalance, BogusNXDomain |-> {BogusIP},
     GatewayIPv4 |-> "", CacheEnabled |-> TRUE]
\* the gateway of the network is known
GatewayConf == [DefaultConf EXCEPT !.GatewayIPv4 = "192.168.1.1"]
ResolveConfs == {DefaultConf, NoUpstreamsConf, ParallelConf, NoFallbacksConf, GatewayConf}

NameAX == <<"a", "x", "">>
NameLocal == <<"a", "">>

ResolveQuestions ==
    [Name : {NameAB, NameAX, NameLocal}, Qtype : {TypeA}]
    \cup [Name : {NameAB}, Qtype : {TypeAAAA}]
    \cup [Name : {NamePrivateArpa, NamePublicArpa}, Qtype : {TypePTR}]

ResolveRequests ==
    {[Id |-> 1, Response |-> FALSE, CheckingDisabled |-> f[1],
      AuthenticatedData |-> FALSE, Extra |-> IF f[2] THEN <<ClientOPT>> ELSE <<>>,
      Answer |-> <<>>, Question |-> <<q>>] :
        q \in ResolveQuestions, f \in {<<FALSE, FALSE>>, <<TRUE, FALSE>>, <<FALSE, TRUE>>}}

InitResolve ==
    /\ newBlockedDomainsManger
    /\ RefuseAny = FALSE
    /\ conf \in ResolveConfs
    /\ ecs = NoECS
    /\ tokens = [ip \in Addrs |-> MaxTokens]
    /\ recSet = {}
    /\ cache = <<>>
    /\ ctx = [c \in Workers |-> IdleCtx]
    /\ loader = NoLoad
    /\ srv = NewProxy
    /\ sm = NewStatsManager
    /\ pdm = NewParkedDomainsManager

NextResolve ==
    \/ \E c \in IdleSlots, req \in ResolveRequests, addr \in Addrs, rnd \in RandomValues :
            handleDNSRequest(c, req, ProtoTCP, addr, TRUE, rnd)
    \/ \E c \in Slots, out \in ResolveOutcomes : exchangeUpstreams(c, out)
    \/ \E c \in Slots, out \in ResolveFallbackOutcomes : exchangeFallbacks(c, out)
    \/ \E c \in Slots : finish(c)
    \/ \E sig \in recSet : recExpire(sig)
    \/ \E i \in 1..Len(cache) : cacheExpire(cache[i].key)

SpecResolve == InitResolve /\ [][NextResolve]_vars

\* two queries at a time for the same names
ConcurrentRequests ==
    [Id : {1}, Response : {FALSE}, CheckingDisabled : {FALSE}, AuthenticatedData : {FALSE},
     Extra : {<<>>}, Answer : {<<>>},
     Question : {<<[Name |-> NameAB, Qtype |-> t]>> : t \in {TypeA, TypeAAAA}}]

InitConcurrent ==
    /\ newBlockedDomainsManger
    /\ RefuseAny = FALSE
    /\ conf = DefaultConf
    /\ ecs = NoECS
    /\ tokens = [ip \in Addrs |-> MaxTokens]
    /\ recSet = {}
    /\ cache = <<>>
    /\ ctx = [c \in Goroutines |-> IdleCtx]
    /\ loader = NoLoad
    /\ srv = NewProxy
    /\ sm = NewStatsManager
    /\ pdm = NewParkedDomainsManager

NextConcurrent ==
    \/ \E c \in IdleSlots, req \in ConcurrentRequests, rnd \in RandomValues :
            handleDNSRequest(c, req, ProtoTCP, "8", TRUE, rnd)
    \/ \E c \in Slots, out \in FallbackOutcomes : exchangeUpstreams(c, out)
    \/ \E c \in Slots, out \in FallbackOutcomes : exchangeFallbacks(c, out)
    \/ \E c \in Slots : finish(c)
    \/ \E i \in 1..Len(cache) : cacheExpire(cache[i].key)

SpecConcurrent == InitConcurrent /\ [][NextConcurrent]_vars

\* processECS alone, for the requests and the addresses above
InitECS ==
    /\ newBlockedDomainsManger
    /\ RefuseAny = FALSE
    /\ conf = DefaultConf
    /\ ecs \in ECSCalls
    /\ tokens = [ip \in Addrs |-> MaxTokens]
    /\ recSet = {}
    /\ cache = <<>>
    /\ ctx = [c \in Workers |-> IdleCtx]
    /\ loader = NoLoad
    /\ srv = NewProxy
    /\ sm = NewStatsManager
    /\ pdm = NewParkedDomainsManager

NextECS ==
    \/ processECSCall
    \/ \E call \in ECSCalls : nextECSCall(call)

SpecECS == InitECS /\ [][NextECS]_vars

\* every outcome of a query: with and without upstreams, with a block
\* list, over UDP and TCP, stopped or not by the before-request handler
OutcomeRequests ==
    {r \in ResolveRequests : ~r.CheckingDisabled /\ ~IsEdns0(r) /\ r.Question[1].Name # NameAX}
    \cup [Id : {1}, Response : {TRUE}, CheckingDisabled : {FALSE}, AuthenticatedData : {FALSE},
          Extra : {<<>>},
          Answer : {<<>>, upstreamAnswer([Name |-> NameAB, Qtype |-> TypeA])},
          Question : {<<[Name |-> NameAB, Qtype |-> TypeA]>>}]
    \cup [Id : {1}, Response : {FALSE}, CheckingDisabled : {FALSE}, AuthenticatedData : {FALSE},
          Extra : {<<>>}, Answer : {<<>>},
          Question : {<<>>}]

InitOutcomes ==
    /\ newBlockedDomainsManger
    /\ RefuseAny = FALSE
    /\ conf \in {DefaultConf, NoUpstreamsConf}
    /\ ecs = NoECS
    /\ tokens = [ip \in Addrs |-> MaxTokens]
    /\ recSet = {}
    /\ cache = <<>>
    /\ ctx = [c \in Workers |-> IdleCtx]
    /\ loader = NoLoad
    /\ srv = NewProxy
    /\ sm = NewStatsManager
    /\ pdm = NewParkedDomainsManager

NextOutcomes ==
    \/ \E c \in IdleSlots, req \in OutcomeRequests, proto \in Protos, addr \in Addrs,
          cont \in BOOLEAN, rnd \in RandomValues :
            handleDNSRequest(c, req, proto, addr, cont, rnd)
    \/ \E c \in Slots, out \in ResolveOutcomes : exchangeUpstreams(c, out)
    \/ \E c \in Slots, out \in ResolveFallbackOutcomes : exchangeFallbacks(c, out)
    \/ \E c \in Slots : finish(c)
    \/ \E ip \in Addrs : refill(ip)
    \/ \E sig \in recSet : recExpire(sig)
    \/ \E i \in 1..Len(cache) : cacheExpire(cache[i].key)
    \/ \E p \in BlockLines : addDomain(p) /\ UNCHANGED proxyVars

SpecOutcomes == InitOutcomes /\ [][NextOutcomes]_vars

\* reloads of the block lists while query handlers check names
InitReload == Init /\ RefuseAny = FALSE

NextReload ==
    \/ \E files \in BlockFileLists : loadBlockedDomains(files)
    \/ \E i \in 1..Len(loader.allDomains) : loadDomain(i)
    \/ loadFinished
    \/ \E d \in CheckNames : checkWhileLoading(d)
    \/ CheckDomainReturn /\ UNCHANGED proxyVars

SpecReload == InitReload /\ [][NextReload]_vars

\* clients with and without the AD bit, without an OPT record and with one
\* with and without the DO bit; upstreams that validate and sign
ValidatingOPT == [UDPSize |-> 1232, Do |-> TRUE]

DNSSECRequests ==
    [Id : {1}, Response : {FALSE}, CheckingDisabled : BOOLEAN, AuthenticatedData : BOOLEAN,
     Extra : {<<>>, <<ClientOPT>>, <<ValidatingOPT>>}, Answer : {<<>>},
     Question : {<<[Name |-> NameAB, Qtype |-> TypeA]>>}]

DNSSECOutcomes == {"ok", "signed", "timeout"}

InitDNSSEC ==
    /\ newBlockedDomainsManger
    /\ RefuseAny = FALSE
    /\ conf = DefaultConf
    /\ ecs = NoECS
    /\ tokens = [ip \in Addrs |-> MaxTokens]
    /\ recSet = {}
    /\ cache = <<>>
    /\ ctx = [c \in Workers |-> IdleCtx]
    /\ loader = NoLoad
    /\ srv = NewProxy
    /\ sm = NewStatsManager
    /\ pdm = NewParkedDomainsManager

NextDNSSEC ==
    \/ \E c \in IdleSlots, req \in DNSSECRequests, rnd \in RandomValues :
            handleDNSRequest(c, req, ProtoTCP, "8", TRUE, rnd)
    \/ \E c \in Slots, out \in DNSSECOutcomes : exchangeUpstreams(c, out)
    \/ \E c \in Slots, out \in DNSSECOutcomes : exchangeFallbacks(c, out)
    \/ \E c \in Slots : finish(c)
    \/ \E i \in 1..Len(cache) : cacheExpire(cache[i].key)

SpecDNSSEC == InitDNSSEC /\ [][NextDNSSEC]_vars

\* queries that may and that may not use the cache: with and without the CD
\* bit, for the reverse name of a private address, with and without a custom
\* upstream configuration, in a proxy with and without a cache
NoCacheConf == [DefaultConf EXCEPT !.CacheEnabled = FALSE]

CacheRequests ==
    [Id : {1}, Response : {FALSE}, CheckingDisabled : BOOLEAN, AuthenticatedData : {FALSE},
     Extra : {<<>>}, Answer : {<<>>},
     Question : {<<[Name |-> NameAB, Qtype |-> TypeA]>>}]
    \cup [Id : {1}, Response : {FALSE}, CheckingDisabled : {FALSE}, AuthenticatedData : {FALSE},
          Extra : {<<>>}, Answer : {<<>>},
          Question : {<<[Name |-> NamePrivateArpa, Qtype |-> TypePTR]>>}]

CacheOutcomes == {"ok", "timeout"}

InitCache ==
    /\ newBlockedDomainsManger
    /\ RefuseAny = FALSE
    /\ conf \in {DefaultConf, NoCacheConf}
    /\ ecs = NoECS
    /\ tokens = [ip \in Addrs |-> MaxTokens]
    /\ recSet = {}
    /\ cache = <<>>
    /\ ctx = [c \in Workers |-> IdleCtx]
    /\ loader = NoLoad
    /\ srv = NewProxy
    /\ sm = NewStatsManager
    /\ pdm = NewParkedDomainsManager

NextCache ==
    \/ \E c \in IdleSlots, req \in CacheRequests, addr \in Addrs, rnd \in RandomValues :
            handleDNSRequest(c, req, ProtoTCP, addr, TRUE, rnd)
    \/ \E c \in IdleSlots, req \in CacheRequests, addr \in Addrs, rnd \in RandomValues :
            handleDNSRequestCustom(c, req, ProtoTCP, addr, NoCacheCustomConfig, rnd)
    \/ \E c \in Slots, out \in CacheOutcomes : exchangeUpstreams(c, out)
    \/ \E c \in Slots, out \in CacheOutcomes : exchangeFallbacks(c, out)
    \/ \E c \in Slots : finish(c)
    \/ \E sig \in recSet : recExpire(sig)
    \/ \E i \in 1..Len(cache) : cacheExpire(cache[i].key)

SpecCache == InitCache /\ [][NextCache]_vars

\* Start and Shutdown called by two goroutines while queries arrive over
\* the listeners
LifecycleRequests ==
    [Id : {1}, Response : {FALSE}, CheckingDisabled : {FALSE}, AuthenticatedData : {FALSE},
     Extra : {<<>>}, Answer : {<<>>},
     Question : {<<[Name |-> NameAB, Qtype |-> TypeA]>>}]

InitLifecycle == Init /\ RefuseAny = FALSE

NextLifecycle ==
    \/ \E k \in Callers, op \in {"Start", "Shutdown"} : Lock(k, op)
    \/ \E k \in Callers : StartCheck(k)
    \/ \E k \in Callers, out \in StartOutcomes : StartConfigure(k, out)
    \/ \E k \in Callers, failing \in CloseFailures : Shutdown(k, failing)
    \/ \E k \in Callers : Returned(k)
    \/ \E c \in IdleSlots, req \in LifecycleRequests, proto \in Protos, rnd \in RandomValues :
            Listening(proto) /\ handleDNSRequest(c, req, proto, "8", TRUE, rnd)
    \/ \E c \in Slots : exchangeUpstreams(c, "ok")
    \/ \E c \in Slots : finish(c)

SpecLifecycle == InitLifecycle /\ [][NextLifecycle]_vars

\* queries for the case variants of one name, under a block list that was
\* loaded before and is not changed while they are handled
NameUpperAB == <<"A", "b", "">>
CasePatterns == {<<"a", "b">>, <<"A", "b">>, <<"*", "b">>}

CaseRequests ==
    [Id : {1}, Response : {FALSE}, CheckingDisabled : {FALSE}, AuthenticatedData : {FALSE},
     Extra : {<<>>}, Answer : {<<>>},
     Question : {<<[Name |-> n, Qtype |-> t]>> : n \in {NameAB, NameUpperAB},
                                                  t \in {TypeA, TypeAAAA}}]

InitCase ==
    /\ \E p \in CasePatterns :
            /\ hosts = addDomainHosts(EmptyHosts, p)
            /\ inserted = {p}
    /\ numDomains = 1
    /\ lastCheck = NoCheck
    /\ RefuseAny = FALSE
    /\ conf = DefaultConf
    /\ ecs = NoECS
    /\ tokens = [ip \in Addrs |-> MaxTokens]
    /\ recSet = {}
    /\ cache = <<>>
    /\ ctx = [c \in Goroutines |-> IdleCtx]
    /\ loader = NoLoad
    /\ srv = NewProxy
    /\ sm = NewStatsManager
    /\ pdm = NewParkedDomainsManager

NextCase ==
    \/ \E c \in IdleSlots, req \in CaseRequests, rnd \in RandomValues :
            handleDNSRequest(c, req, ProtoTCP, "8", TRUE, rnd)
    \/ \E c \in Slots : exchangeUpstreams(c, "ok")
    \/ \E c \in Slots : finish(c)

SpecCase == InitCase /\ [][NextCase]_vars

\* goroutines that resolve blocked queries and count the blocked responses
InitCount == Init /\ RefuseAny = TRUE

NextCount ==
    \/ \E g \in Goroutines : resolveBlocked(g)
    \/ \E g \in Goroutines : countExists(g)
    \/ \E g \in Goroutines : countGet(g)
    \/ \E g \in Goroutines : countSet(g)

SpecCount == InitCount /\ [][NextCount]_vars

\* callers of the parked domains manager; a call that can go on does, and a
\* caller that waits for the mutex gets it when it is free again and again
\* (sync.Mutex hands the lock to a waiter that has waited for long)
InitParked == Init /\ RefuseAny = FALSE

ParkedStep(k) ==
    \/ loadParkedLocked(k)
    \/ loadParkedNext(k)
    \/ addDomainLocked(k)
    \/ checkDomainLocked(k)
    \/ parkedReturn(k)

NextParked ==
    \/ \E k \in Callers, file \in ParkedFiles : LoadParkedDomains(k, file)
    \/ \E k \in Callers, d \in {ParkedAB} : AddDomain(k, d)
    \/ \E k \in Callers, d \in ParkedQueries : CheckDomain(k, d)
    \/ \E k \in Callers : ParkedStep(k)

SpecParked == InitParked /\ [][NextParked]_vars

SpecParkedFair == SpecParked /\ \A k \in Callers : SF_vars(ParkedStep(k))

\* the matcher alone: patterns are added, the list is cleared, domains are checked
InitMatcher == Init /\ RefuseAny = TRUE

NextMatcher ==
    \/ \E p \in Patterns : addDomain(p) /\ UNCHANGED proxyVars
    \/ clear /\ UNCHANGED proxyVars
    \/ \E d \in Patterns : CheckDomainCall(d) /\ UNCHANGED proxyVars
    \/ CheckDomainReturn /\ UNCHANGED proxyVars

SpecMatcher == InitMatcher /\ [][NextMatcher]_vars

\* calls of Set, Get and Exists on the statistics store
InitStats == Init /\ RefuseAny = FALSE

NextStats ==
    \/ \E k \in StatKeys, v \in StatValues : Set(k, v)
    \/ \E k \in StatKeys : Get(k)
    \/ \E k \in StatKeys : Exists(k)

SpecStats == InitStats /\ [][NextStats]_vars

(***************************************************************************)
(* Properties.                                                             *)
(***************************************************************************)
\* d ends in "." + s
EndsWithDot(d, s) == Len(d) > Len(s) /\ SubSeq(d, Len(d) - Len(s) + 1, Len(d)) = s

\* p is "*." + s for some s
IsWildcard(p) == Len(p) >= 2 /\ p[1] = "*"

\* p == d, or p = "*.s" and d ends in ".s" with d != s
MatchesSubdomainsOnly(p, d) == p = d \/ (IsWildcard(p) /\ EndsWithDot(d, Tail(p)))

\* p == d, or p = "*.s" and d is s or ends in ".s"
Matches(p, d) == p = d \/ (IsWildcard(p) /\ (d = Tail(p) \/ EndsWithDot(d, Tail(p))))

\* slot c holds a query (a message without the response bit)
IsQuery(c) == ctx[c].pc # "idle" /\ ~ctx[c].Req.Response

\* slot c holds a query with exactly one question
OneQuestion(c) == IsQuery(c) /\ Len(ctx[c].Req.Question) = 1

\* no cache lookup, no cache store and no exchange was made for the query of c
NoCacheNoExchange(c) ==
    /\ ~ctx[c].cacheLookup
    /\ ~ctx[c].cacheStored
    /\ ctx[c].exchanged = {}
    /\ ctx[c].pc \notin {"exchange", "fallback"}

\* in this step handleDNSRequest takes a query into slot c
Handled(c) == ctx[c].pc = "idle" /\ ctx'[c].pc # "idle" /\ ~ctx'[c].Req.Response

\* C1: a UDP query that the rate limiter rejects is dropped silently: no
\* response is written for it, and there is no cache lookup and no upstream
\* or fallback exchange.
C1_RatelimitedDropped ==
    \A c \in Slots :
        (IsQuery(c) /\ ctx[c].Proto = ProtoUDP /\ ctx[c].ratelimited) =>
            /\ ctx[c].pc = "done"
            /\ ctx[c].wrote = NoMsg
            /\ NoCacheNoExchange(c)

C1_Witness ==
    \E c \in Slots :
        /\ OneQuestion(c) /\ ctx[c].Proto = ProtoUDP /\ ctx[c].ratelimited
        /\ ctx[c].Req.Question[1].Qtype = TypeA
        /\ ctx[c].pc = "done"

\* C2: every response written to a client for a request q has the id of q
\* and the question section of q.
C2_ResponseEchoesRequest ==
    \A c \in Slots :
        ctx[c].wrote # NoMsg =>
            /\ ctx[c].wrote.Id = ctx[c].Req.Id
            /\ ctx[c].wrote.Question = ctx[c].Req.Question

\* the question name, without its trailing dot, matches an inserted pattern
BlocklistMatches(name) == \E p \in inserted : Matches(p, TrimSuffixDot(name))

\* the zero address of a record type
ZeroAddress(t) == IF t = TypeA THEN "0.0.0.0" ELSE "::"

\* in this step slot c takes a query with one question that passes the rate
\* limit and validation and so is resolved
Resolved(c) ==
    /\ Handled(c)
    /\ Len(ctx'[c].Req.Question) = 1
    /\ ctx'[c].validatedBy = "ok"

\* the query taken into slot c in this step is answered with the synthesized
\* zero-address response and nothing else is done for it
AnsweredZeroAddress(c) ==
    LET q == ctx'[c].Req.Question[1]
        r == ctx'[c].wrote
    IN  /\ ctx'[c].pc = "done"
        /\ r # NoMsg
        /\ r.Rcode = RcodeSuccess
        /\ r.Answer = <<[Name |-> q.Name, Rrtype |-> q.Qtype, Ttl |-> 3600,
                         Data |-> ZeroAddress(q.Qtype)]>>
        /\ ~ctx'[c].cacheLookup
        /\ ~ctx'[c].cacheStored
        /\ ctx'[c].exchanged = {}
        /\ cache' = cache

\* C3: an A (resp. AAAA) query whose question name matches the blocklist is
\* answered with RCODE NOERROR and exactly one answer record, A 0.0.0.0
\* (resp. AAAA ::), with TTL 3600 and owner name equal to the question name,
\* without any cache lookup, cache store or upstream exchange.
C3_BlockedAddressQuery ==
    [][\A c \in Slots :
        (/\ Resolved(c)
         /\ ctx'[c].Req.Question[1].Qtype \in {TypeA, TypeAAAA}
         /\ BlocklistMatches(ctx'[c].Req.Question[1].Name))
        => AnsweredZeroAddress(c)]_vars

C3_Witness ==
    \E c \in Slots :
        /\ OneQuestion(c)
        /\ ctx[c].Req.Question[1].Qtype = TypeAAAA
        /\ BlocklistMatches(ctx[c].Req.Question[1].Name)
        /\ ctx[c].blocked
        /\ ctx[c].wrote # NoMsg
        /\ ctx[c].wrote.Answer # <<>>
        /\ ctx[c].wrote.Answer[1].Data = "::"

\* C4 (as stated): every query, of any type, whose question name matches a
\* blocklist pattern is answered locally with the zero-address response and
\* never forwarded.
C4_EveryTypeBlocked ==
    [][\A c \in Slots :
        (Resolved(c) /\ BlocklistMatches(ctx'[c].Req.Question[1].Name))
        => AnsweredZeroAddress(c)]_vars

\* C4: a query whose question name matches a blocklist pattern is answered
\* locally with the zero-address response and never forwarded exactly when
\* its type is A or AAAA; a matching query of another type is not checked
\* against the blocklist and goes on to the cache and the upstreams.
C4_OnlyAddressTypesBlocked ==
    [][\A c \in Slots :
        (Resolved(c) /\ BlocklistMatches(ctx'[c].Req.Question[1].Name))
        => IF ctx'[c].Req.Question[1].Qtype \in {TypeA, TypeAAAA}
           THEN ctx'[c].blocked /\ AnsweredZeroAddress(c)
           ELSE /\ ~ctx'[c].blocked
                /\ ctx'[c].cacheLookup
                /\ \/ ctx'[c].pc = "exchange"
                   \/ ctx'[c].pc = "done" /\ ctx'[c].wrote.Answer # <<>>
                                          /\ ctx'[c].wrote.Answer[1].Data # ZeroAddress(TypeA)
                                          /\ ctx'[c].wrote.Answer[1].Data # ZeroAddress(TypeAAAA)]_vars

C4_Witness ==
    \E c \in Slots :
        /\ OneQuestion(c)
        /\ ctx[c].Req.Question[1].Qtype = TypePTR
        /\ BlocklistMatches(ctx[c].Req.Question[1].Name)
        /\ ctx[c].validatedBy = "ok"
        /\ "primary" \in ctx[c].exchanged

MatchingWildcards(d) ==
    {p \in inserted : IsWildcard(p) /\ (d = Tail(p) \/ EndsWithDot(d, Tail(p)))}

PrivateArpaQuestion(q) ==
    /\ q.Qtype \in {TypePTR, TypeSOA, TypeNS}
    /\ q.Name \in {<<a, "arpa", "">> : a \in PrivateNets}

\* the first validation check that hits for a request, "ok" when none does
FirstCheck(req, addr, rs) ==
    IF Len(req.Question) # 1 THEN "qcount"
    ELSE IF RefuseAny /\ req.Question[1].Qtype = TypeANY THEN "any"
    ELSE IF msgToSignature(req) \in rs THEN "recursion"
    ELSE IF PrivateArpaQuestion(req.Question[1]) /\ addr \notin PrivateNets THEN "arpa"
    ELSE "ok"

CheckRcode(check) ==
    CASE check = "qcount" -> RcodeServerFailure
      [] check = "any" -> RcodeNotImplemented
      [] check = "recursion" -> RcodeNameError
      [] check = "arpa" -> RcodeNameError

HandledUDP(c) ==
    /\ Handled(c)
    /\ ctx'[c].Proto = ProtoUDP
    /\ ctx'[c].dropped # "before"

\* C10 (as stated): the bucket is not consulted for a UDP query that
\* validation answers synthetically, and the query receives its synthetic
\* response even when the bucket of its subnet is empty.
C10_SyntheticBypassesBucket ==
    [][\A c \in Slots :
        (HandledUDP(c) /\ FirstCheck(ctx'[c].Req, ctx'[c].Addr, recSet) # "ok") =>
            /\ ~ctx'[c].rlConsulted
            /\ ctx'[c].wrote # NoMsg
            /\ ctx'[c].wrote.Rcode =
                   CheckRcode(FirstCheck(ctx'[c].Req, ctx'[c].Addr, recSet))]_vars

\* C10: the rate limiter is consulted for every UDP query before validation,
\* also for one that validation would answer synthetically: a query the
\* limiter rejects is dropped without being validated and without any
\* response, a query it admits is validated next; a query over another
\* transport never consults the limiter.
C10_BucketBeforeValidation ==
    [][\A c \in Slots :
        /\ HandledUDP(c) =>
              /\ ctx'[c].rlConsulted
              /\ IF ctx'[c].ratelimited
                 THEN /\ ctx'[c].validatedBy = "notrun"
                      /\ ctx'[c].pc = "done"
                      /\ ctx'[c].wrote = NoMsg
                 ELSE ctx'[c].validatedBy =
                            FirstCheck(ctx'[c].Req, ctx'[c].Addr, recSet)
        /\ (Handled(c) /\ ctx'[c].Proto # ProtoUDP) =>
              /\ ~ctx'[c].rlConsulted
              /\ ~ctx'[c].ratelimited
              /\ tokens' = tokens]_vars

\* a query that validation would answer with SERVFAIL is dropped unanswered
C10_Witness ==
    \E c \in Slots :
        /\ IsQuery(c)
        /\ ctx[c].Proto = ProtoUDP
        /\ Len(ctx[c].Req.Question) # 1
        /\ ctx[c].ratelimited
        /\ ctx[c].validatedBy = "notrun"
        /\ ctx[c].wrote = NoMsg


\* the exchange of the query of slot c with an upstream or a fallback is
\* outstanding
Outstanding(c) == ctx[c].pc \in {"exchange", "fallback"}

\* in this step Resolve takes a query into slot c and misses the cache
\* with upstreams to ask
MissesCache(c) ==
    /\ Handled(c)
    /\ ctx'[c].validatedBy = "ok"
    /\ ~ctx'[c].blocked
    /\ ~InCache(cache, cacheKey(ctx'[c].Req))

\* C11 as stated: at any instant at most one upstream exchange is
\* outstanding for a fingerprint, the queries of two slots never wait for
\* exchanges for the same key at once.
C11_SingleFlight ==
    \A c \in Slots : \A o \in Slots \ {c} :
        (Outstanding(c) /\ Outstanding(o)) =>
            cacheKey(ctx[c].Req) # cacheKey(ctx[o].Req)

\* C11, amended: a query that misses the cache performs its own upstream
\* exchange, whether or not an exchange for the same fingerprint is
\* outstanding for another query, and the result of an exchange goes to the
\* query that made it only.
C11_EveryMissExchanges ==
    [][\A c \in Slots :
        /\ MissesCache(c) => ctx'[c].pc = "exchange"
        /\ (Outstanding(c) /\ ctx'[c].pc = "done") =>
                /\ ctx'[c].exchanged # {}
                /\ \A o \in Slots \ {c} : ctx'[o] = ctx[o]]_vars

\* two exchanges for one key are outstanding
C11_Witness ==
    /\ ctx["c1"].pc = "exchange" /\ ctx["c2"].pc = "exchange"
    /\ cacheKey(ctx["c1"].Req) = cacheKey(ctx["c2"].Req)


\* in this step the query of slot c gets the result of its last exchange
\* and Resolve returns
ExchangeReturns(c) == Outstanding(c) /\ ctx'[c].pc = "done"

\* the name of the question of slot c after the step, without its final dot
QuestionDomain(c) == TrimSuffixDot(ctx'[c].Req.Question[1].Name)

\* the name of the question is not in the cache-exclusion list
NotExcluded(c) == ~Matches(ExcludedFromCaching, QuestionDomain(c))

\* the CD bit is set neither in the request nor in the response
CheckingEnabled(c) == ~ctx'[c].Req.CheckingDisabled /\ ~ctx'[c].Res.CheckingDisabled

\* the code of the response can be cached
CacheableRcode(c) == ctx'[c].Res.Rcode \in {RcodeSuccess, RcodeNameError}

\* in this step the response of slot c is stored in the cache, or the cache
\* stays as it is
StoredIff(c, cond) ==
    IF cond
    THEN /\ ctx'[c].cacheStored
         /\ InCache(cache', cacheKey(ctx'[c].Req))
         /\ cacheGet(cache', cacheKey(ctx'[c].Req)).Answer = ctx'[c].wrote.Answer
         /\ cacheGet(cache', cacheKey(ctx'[c].Req)).Rcode = ctx'[c].wrote.Rcode
    ELSE ~ctx'[c].cacheStored /\ cache' = cache

\* C12 as stated: after an upstream exchange the response is stored in the
\* cache iff the name is not excluded from caching, the CD bit is unset, the
\* response came from an upstream and its code is cacheable.
C12_StoreIffFourConditions ==
    [][\A c \in Slots :
        ExchangeReturns(c) =>
            StoredIff(c, /\ NotExcluded(c)
                         /\ CheckingEnabled(c)
                         /\ ctx'[c].err = None /\ ~ctx'[c].replaced
                         /\ CacheableRcode(c))]_vars

\* C12, amended: after an upstream exchange the response is stored in the
\* cache iff the question is an A or AAAA question for a name of at least
\* two labels that is not excluded from caching, the CD bit is unset in the
\* request and in the response, an exchange gave a response (possibly
\* the NXDOMAIN that replaces a bogus one) and its code is cacheable.
C12_StoreIffAddressQuestionToo ==
    [][\A c \in Slots :
        ExchangeReturns(c) =>
            StoredIff(c, /\ ctx'[c].Req.Question[1].Qtype \in {TypeA, TypeAAAA}
                         /\ Len(QuestionDomain(c)) >= 2
                         /\ NotExcluded(c)
                         /\ CheckingEnabled(c)
                         /\ ctx'[c].err = None
                         /\ CacheableRcode(c))]_vars

\* the response of an exchange for a.b. was stored
C12_Witness ==
    /\ ctx["c1"].pc = "done" /\ ctx["c1"].exchanged # {}
    /\ ctx["c1"].Req.Question[1].Name = NameAB
    /\ ctx["c1"].cacheStored
    /\ InCache(cache, cacheKey(ctx["c1"].Req))


\* in this step Resolve takes into slot c a query with the CD bit unset
\* while the cache holds an entry for it
RepeatedWhileCached(c) ==
    /\ Handled(c)
    /\ ctx'[c].validatedBy = "ok"
    /\ ~ctx'[c].blocked
    /\ ~ctx'[c].Req.CheckingDisabled
    /\ InCache(cache, cacheKey(ctx'[c].Req))

\* C13: a query repeated while the cache holds a fresh entry for it is
\* answered from the cache, with the code and the answer of the entry under
\* its own id, and no exchange with an upstream or a fallback is made for it.
C13_RepeatedAnsweredFromCache ==
    [][\A c \in Slots :
        RepeatedWhileCached(c) =>
            /\ ctx'[c].pc = "done"
            /\ ctx'[c].exchanged = {} /\ ctx'[c].queried = {}
            /\ ~ctx'[c].cacheStored
            /\ ctx'[c].wrote.Id = ctx'[c].Req.Id
            /\ ctx'[c].wrote.Question = ctx'[c].Req.Question
            /\ ctx'[c].wrote.Rcode = cacheGet(cache, cacheKey(ctx'[c].Req)).Rcode
            /\ ctx'[c].wrote.Answer = cacheGet(cache, cacheKey(ctx'[c].Req)).Answer]_vars

\* a query was answered from the cache without an exchange
C13_Witness ==
    /\ ctx["c1"].pc = "done" /\ ctx["c1"].cacheHit
    /\ ctx["c1"].exchanged = {}
    /\ ctx["c1"].wrote.Answer = upstreamAnswer(ctx["c1"].Req.Question[1])
    /\ InCache(cache, cacheKey(ctx["c1"].Req))


\* in this step Resolve takes a query into slot c that neither the block
\* list nor the cache answers
ReachesSelection(c) ==
    /\ Handled(c)
    /\ ctx'[c].validatedBy = "ok"
    /\ ~ctx'[c].blocked
    /\ ~ctx'[c].cacheHit

\* the configuration has no upstream for the query of slot c: it is not a
\* name for the gateway, no private upstreams are used for its reverse
\* lookup of a private address, no upstream is configured for another
\* question
NoUpstreamFor(c) ==
    IF Len(ctx'[c].Req.Question[1].Name) = 2 /\ conf.GatewayIPv4 # ""
    THEN FALSE
    ELSE IF ctx'[c].RequestedPrivateRDNS # None
    THEN ~(conf.UsePrivateRDNS /\ ctx'[c].IsPrivateClient)
    ELSE conf.Upstreams = <<>>

\* C14: when the selection gives no upstream for a query, the response is
\* NXDOMAIN, the error is the one of no upstreams, no exchange with an
\* upstream or a fallback is made and the cache stays as it is.
C14_NoUpstreams ==
    [][\A c \in Slots :
        (ReachesSelection(c) /\ NoUpstreamFor(c)) =>
            /\ ctx'[c].pc = "done"
            /\ ctx'[c].wrote = [Id |-> ctx'[c].Req.Id, Rcode |-> RcodeNameError,
                                CheckingDisabled |-> ctx'[c].Req.CheckingDisabled,
                                AuthenticatedData |-> FALSE,
                                Question |-> ctx'[c].Req.Question,
                                Answer |-> <<>>, Ns |-> <<>>, OPT |-> FALSE]
            /\ ctx'[c].err = ErrNoUpstreams
            /\ ctx'[c].exchanged = {} /\ ctx'[c].queried = {}
            /\ ~ctx'[c].cacheStored
            /\ cache' = cache]_vars

\* a query was answered NXDOMAIN for want of upstreams while fallbacks are
\* configured
C14_Witness ==
    /\ ctx["c1"].pc = "done"
    /\ ctx["c1"].err = ErrNoUpstreams
    /\ ctx["c1"].wrote.Rcode = RcodeNameError
    /\ ctx["c1"].exchanged = {}
    /\ Fallbacks # {}


\* in this step the exchange of the query of slot c with its upstreams
\* returns
PrimaryReturns(c) == ctx[c].pc = "exchange" /\ ctx'[c].pc # "exchange"

\* C15 as stated: the fallbacks are asked only after a retryable error of
\* the primary exchange, a timeout, and with fallbacks configured.
C15_OnlyRetryableFallsBack ==
    [][\A c \in Slots :
        (PrimaryReturns(c) /\ ctx'[c].pc = "fallback") =>
            (ctx'[c].err = "timeout" /\ Fallbacks # {})]_vars

\* C15, amended: the fallbacks are asked after every error of the primary
\* exchange, a protocol error included, when fallbacks are configured and
\* the query is not one for the private upstreams, and only then; otherwise
\* the error of the primary exchange is the error of Resolve.
C15_AnyErrorFallsBack ==
    [][\A c \in Slots :
        PrimaryReturns(c) =>
            IF ctx'[c].err # None /\ ~ctx[c].isPrivate /\ Fallbacks # {}
            THEN /\ ctx'[c].pc = "fallback"
                 /\ ctx'[c].wrote = NoMsg
                 /\ ctx'[c].exchanged = {"primary"}
            ELSE /\ ctx'[c].pc = "done"
                 /\ ctx'[c].exchanged = {"primary"}
                 /\ ctx'[c].queried \cap Fallbacks = {}]_vars

\* the fallbacks are asked after a protocol error
C15_Witness ==
    /\ ctx["c1"].pc = "fallback"
    /\ ctx["c1"].err = "protocol"
    /\ Fallbacks # {}


\* slot c holds a query for the reversed form of a private address
PrivateRDNSQuery(c) == ctx[c].pc # "idle" /\ ctx[c].RequestedPrivateRDNS # None

C17_NoResponseServfail ==
    [][\A c \in Slots :
        (ExchangeReturns(c) /\ ctx'[c].lastErr # None) =>
            /\ ctx'[c].wrote = [Id |-> ctx'[c].Req.Id, Rcode |-> RcodeServerFailure,
                                CheckingDisabled |-> ctx'[c].Req.CheckingDisabled,
                                AuthenticatedData |-> FALSE,
                                Question |-> ctx'[c].Req.Question,
                                Answer |-> <<>>, Ns |-> <<>>, OPT |-> FALSE]
            /\ ~ctx'[c].hasEDNS0
            /\ ctx'[c].err = ctx'[c].lastErr
            /\ ~ctx'[c].cacheStored]_vars

\* a request with EDNS0 got SERVFAIL after the upstreams and the fallbacks
\* gave no response
C17_Witness ==
    /\ ctx["c1"].pc = "done"
    /\ ctx["c1"].exchanged = {"primary", "fallback"}
    /\ IsEdns0(ctx["c1"].Req)
    /\ ~ctx["c1"].hasEDNS0
    /\ ctx["c1"].wrote.Rcode = RcodeServerFailure
    /\ ctx["c1"].err = "timeout"


\* the upstreams the registry has for every name
RegistryUpstreams == {conf.Upstreams[i] : i \in 1..Len(conf.Upstreams)}

\* C18: in parallel mode a query that was exchanged with the upstreams of
\* the registry was sent to all of them.
C18_ParallelQueriesAll ==
    \A c \in Slots :
        (/\ conf.UpstreamMode = UpstreamModeParallel
         /\ "primary" \in ctx[c].exchanged
         /\ ~ctx[c].isPrivate) =>
            RegistryUpstreams \subseteq ctx[c].queried

\* an answer of message m carries an address of the bogus-nxdomain list
HasBogusAnswer(m) == \E i \in 1..Len(m.Answer) : m.Answer[i].Data \in conf.BogusNXDomain

\* C19: no response written to a client after an exchange, and no entry of
\* the cache, carries an answer with an address of the bogus-nxdomain list.
C19_NoBogusAnswer ==
    /\ \A c \in Slots : ctx[c].exchanged # {} => ~HasBogusAnswer(ctx[c].wrote)
    /\ \A i \in 1..Len(cache) : ~HasBogusAnswer(cache[i])


\* in this step processECS returns
ProcessECSReturns == ecs.pc = "call" /\ ecs'.pc = "sent"

\* the ECS options of message m
SubnetOptions(m) ==
    {i \in 1..Len(m.Opt.Option) : m.Opt.Option[i].Code = EDNS0SUBNET}

\* the address whose subnet goes upstream: the configured one or the
\* client's
ECSSource == IF ecs.EDNSAddr # NoIP THEN ecs.EDNSAddr ELSE ecs.d.Addr

\* the first n bytes of ip, the others zero
FirstBytes(ip, n) == [i \in 1..Len(ip) |-> IF i <= n THEN ip[i] ELSE 0]

\* the ECS option for the source address: /24 of an IPv4 address, /56 of an
\* IPv6 address, scope 0
ExpectedOption ==
    IF Len(ECSSource) = 4
    THEN [Code |-> EDNS0SUBNET, Family |-> 1, SourceNetmask |-> 24, SourceScope |-> 0,
          Address |-> FirstBytes(ECSSource, 3)]
    ELSE [Code |-> EDNS0SUBNET, Family |-> 2, SourceNetmask |-> 56, SourceScope |-> 0,
          Address |-> FirstBytes(ECSSource, 7)]

\* the request that goes upstream carries the expected option as its only
\* ECS option, whatever else it carried is kept
CarriesExpectedOption ==
    /\ ecs'.d.Req.Opt.present
    /\ ecs'.d.Req.Opt.Option = Append(ecs.d.Req.Opt.Option, ExpectedOption)

\* the request carries an ECS option with a prefix that is not zero
HasPrefixedSubnet ==
    \E i \in SubnetOptions(ecs.d.Req) : ecs.d.Req.Opt.Option[i].SourceNetmask # 0

\* C20 as stated: a request without an ECS option goes upstream with the
\* ECS option of the client address or of the configured address, masked to
\* /24 or /56, with scope 0; a request with an ECS option of a prefix that
\* is not zero goes upstream unchanged.
C20_AlwaysAddsSubnet ==
    [][ProcessECSReturns =>
        /\ SubnetOptions(ecs.d.Req) = {} => CarriesExpectedOption
        /\ HasPrefixedSubnet => ecs'.d.Req = ecs.d.Req]_vars

\* C20, amended: a request without an ECS option goes upstream with that
\* option when the address is not a special-purpose one, and unchanged,
\* without any ECS option, when it is; a request with an ECS option of a
\* prefix that is not zero goes upstream unchanged.
C20_AddsSubnetUnlessSpecialPurpose ==
    [][ProcessECSReturns =>
        /\ (SubnetOptions(ecs.d.Req) = {} /\ ~IsSpecialPurpose(ECSSource)) =>
                CarriesExpectedOption
        /\ (SubnetOptions(ecs.d.Req) = {} /\ IsSpecialPurpose(ECSSource)) =>
                ecs'.d.Req = ecs.d.Req
        /\ HasPrefixedSubnet => ecs'.d.Req = ecs.d.Req]_vars

\* the request of the client 93.184.216.34, which carried a cookie, went
\* upstream with the option for 93.184.216.0/24 after the cookie
C20_Witness ==
    /\ ecs.pc = "sent"
    /\ ecs.EDNSAddr = NoIP
    /\ ecs.d.Addr = <<93, 184, 216, 34>>
    /\ ecs.d.Req.Opt.Option =
            <<CookieOption,
              [Code |-> EDNS0SUBNET, Family |-> 1, SourceNetmask |-> 24,
               SourceScope |-> 0, Address |-> <<93, 184, 216, 0>>]>>
    /\ ecs.d.ReqECS.IP = <<93, 184, 216, 0>>

\* the reload is over
ReloadDone == loader.pc = "done"

\* C21: a name that is blocked before a reload and after it is reported
\* blocked by every check made while the reload runs (no check in between
\* sees the cleared or the partially loaded list).
C21_BlockedThroughoutReload ==
    ReloadDone =>
        \A d \in loader.blockedBefore : checkDomain(hosts, d).ok => d \notin loader.passed

\* the lines of the files of the reload, comments and excluded lines left out
RECURSIVE fileLines(_)
fileLines(files) ==
    IF files = <<>> THEN <<>> ELSE Head(files).lines \o fileLines(Tail(files))

NonExcludedLines ==
    SelectSeq(fileLines(loader.files),
              LAMBDA line : ~HasPrefixHash(line) /\ ~EdmCheckDomain(line))

\* C25: when a reload is over, every line of the files that is neither a
\* comment nor excluded was stored once or counted as a duplicate: the
\* stored patterns plus the duplicates are as many as those lines.
C25_StoredPlusDuplicates ==
    ReloadDone => numDomains + loader.numDuplicatedDomains = Len(NonExcludedLines)

\* Shutdown, called by k, returns in this step; the proxy was started
ShutdownReturns(k) ==
    /\ srv.call[k].pc = "locked"
    /\ srv.call[k].op = "Shutdown"
    /\ srv'.call[k].pc = "done"

ShutdownOfStarted(k) == ShutdownReturns(k) /\ srv.started

\* the listeners the proxy holds
Listeners == Range(srv.udpListen) \cup Range(srv.tcpListen)

\* the query of slot c has its response or was dropped
Completed(c) == ctx[c].pc \in {"idle", "done"}

\* C22 (as stated): Shutdown closes every listener and returns only when
\* the queries that were in flight when it was called have completed.
C22_ShutdownWaitsForInFlight ==
    [][\A k \in Callers :
        ShutdownOfStarted(k) =>
            /\ Listeners \subseteq srv'.closed
            /\ \A c \in srv.call[k].inflight : Completed(c)']_vars

\* C22: Shutdown closes every listener socket and leaves the queries in
\* flight as they are: it returns without waiting for them.
C22_ShutdownClosesListeners ==
    [][\A k \in Callers :
        ShutdownOfStarted(k) =>
            /\ Listeners \subseteq srv'.closed
            /\ Listeners \cap srv'.open = {}
            /\ ctx' = ctx]_vars

C22_Witness ==
    \E k \in Callers :
        /\ srv.call[k].pc = "done"
        /\ srv.call[k].op = "Shutdown"
        /\ ~srv.started
        /\ {"udp:53", "tcp:53"} \subseteq srv.closed
        /\ \E c \in srv.call[k].inflight : ctx[c].pc = "exchange"

\* the callers that hold the lock of the proxy
InsideLock == {k \in Callers : srv.call[k].pc \in {"locked", "configure"}}

\* Start, called by k, tests p.started in this step
StartTests(k) ==
    /\ srv.call[k].pc = "locked"
    /\ srv.call[k].op = "Start"
    /\ srv'.call[k] # srv.call[k]

\* Start, called by k, returns nil in this step
StartSucceeds(k) ==
    /\ srv.call[k].pc = "configure"
    /\ srv'.call[k].pc = "done"
    /\ srv'.call[k].err = NilErr

\* C23: Start on a started proxy returns "server has been already started"
\* and changes neither the listeners nor the started flag; Start and
\* Shutdown exclude each other, and a Start succeeds only on a proxy that
\* is not started, so of two concurrent Start calls at most one succeeds.
C23_StartOnStarted ==
    [][/\ \A k \in Callers :
            /\ (StartTests(k) /\ srv.started) =>
                    /\ srv'.call[k].pc = "done"
                    /\ srv'.call[k].err = ErrAlreadyStarted
                    /\ srv'.udpListen = srv.udpListen
                    /\ srv'.tcpListen = srv.tcpListen
                    /\ srv'.open = srv.open
                    /\ srv'.started
            /\ StartSucceeds(k) => ~srv.started /\ srv'.started
       /\ Cardinality(InsideLock') <= 1]_vars

C23_Witness ==
    \E k \in Callers :
        /\ srv.call[k].pc = "done"
        /\ srv.call[k].op = "Start"
        /\ srv.call[k].err = ErrAlreadyStarted
        /\ srv.started
        /\ srv.udpListen # <<>>
        /\ \E o \in Callers \ {k} : srv.call[o].op = "Start" /\ srv.call[o].err = NilErr
                                      /\ srv.call[o].pc = "done"

\* C30: Shutdown of a started proxy ends with started = false and no
\* listener, whether Close calls fail or not; the failures are returned
\* joined in one error, nil if there are none; Start on the stopped proxy
\* is not rejected.
C30_ShutdownAlwaysStops ==
    [][\A k \in Callers :
        /\ ShutdownOfStarted(k) =>
                /\ ~srv'.started
                /\ srv'.udpListen = <<>>
                /\ srv'.tcpListen = <<>>
                /\ IF srv'.failed = {}
                   THEN srv'.call[k].err = NilErr
                   ELSE /\ srv'.call[k].err.msg = "stopping dns proxy server"
                        /\ Range(srv'.call[k].err.errs) = srv'.failed
                        /\ Len(srv'.call[k].err.errs) = Cardinality(srv'.failed)
        /\ (StartTests(k) /\ ~srv.started) => srv'.call[k].pc = "configure"]_vars

C30_Witness ==
    /\ srv.started
    /\ Len(srv.stopErr.errs) > 1
    /\ srv.failed = Closers

\* handleDNSRequest has returned for the query of slot c without dropping it
NotDropped(c) == ctx[c].pc = "done" /\ ctx[c].dropped = None

SingleLabel(c) ==
    /\ ctx[c].Req # NoReq
    /\ Len(ctx[c].Req.Question) > 0
    /\ Len(ctx[c].Req.Question[1].Name) = 2

\* a gateway address was found by getGatewayIPs
GatewayKnown == GatewayIPv6 # "" \/ GatewayIPv4 # ""

TakesResponsePacket(c) ==
    /\ ctx[c].pc = "idle"
    /\ ctx'[c].pc # "idle"
    /\ ctx'[c].Req.Response

\* C27: a received message with the response bit set is dropped: nothing is
\* written, the before-request handler is not run, no token of a bucket is
\* taken, no upstream is selected or queried, the cache and the recursion
\* detector stay as they are, and no counter or statistic is changed.
C27_ResponsePacketNoEffect ==
    [][\A c \in Slots :
        TakesResponsePacket(c) =>
            /\ ctx'[c].pc = "done"
            /\ ctx'[c].dropped = "response"
            /\ ctx'[c].wrote = NoMsg
            /\ ~ctx'[c].beforeRan
            /\ ~ctx'[c].rlConsulted
            /\ tokens' = tokens
            /\ ctx'[c].upstreams = {}
            /\ ctx'[c].queried = {}
            /\ cache' = cache
            /\ recSet' = recSet
            /\ ctx'[c].counted = {}]_vars

(***************************************************************************)
(* C28: the DO bit towards the upstream, the bits of the client towards    *)
(* the client.                                                             *)
(***************************************************************************)
\* the DO bit of the message as the client sent it
ClientDO(d) == IsEdns0(d.received) /\ d.received.Extra[1].Do

\* the context d looked into a usable cache, found nothing and goes upstream
UsableCacheMissed(d) == d.cacheLookup /\ ~d.cacheHit /\ d.upstreams # {}

WithoutSignatures(rrs) == SelectSeq(rrs, LAMBDA rr : rr.Rrtype # TypeRRSIG)

\* C28: when the cache is usable and the lookup misses, the request that
\* goes upstream has exactly one OPT record, with the DO bit set, which is
\* the OPT record of the client when it sent one; the response written to
\* the client keeps the AD bit of the upstream response only when the client
\* itself set AD or DO, and keeps the signatures only when the client itself
\* set DO, while the cache keeps the response as the upstream gave it.
C28_DOUpstreamClientBitsDownstream ==
    [][\A c \in Slots :
        LET d == ctx'[c]
        IN  /\ UsableCacheMissed(d) =>
                /\ Len(d.Req.Extra) = 1
                /\ d.Req.Extra[1].Do
                /\ IsEdns0(d.received) =>
                        d.Req.Extra[1].UDPSize = d.received.Extra[1].UDPSize
                /\ d.adBit = d.received.AuthenticatedData
                /\ d.doBit = ClientDO(d)
            /\ (ctx[c].pc \in {"exchange", "fallback"} /\ d.pc = "done" /\ d.cacheStored) =>
                LET item == cacheGet(cache', cacheKey(d.Req))
                IN  /\ d.wrote.AuthenticatedData =
                            (item.AuthenticatedData
                                /\ (d.received.AuthenticatedData \/ ClientDO(d)))
                    /\ d.wrote.Answer = IF ClientDO(d) THEN item.Answer
                                        ELSE WithoutSignatures(item.Answer)]_vars

\* a client with an OPT record without the DO bit and without the AD bit
\* got a signed answer without the signature and without the AD bit; the
\* request went upstream with its OPT record and the DO bit, the cache keeps
\* the signed answer
C28_Witness ==
    \E c \in Slots :
        /\ ctx[c].pc = "done"
        /\ ctx[c].cacheStored
        /\ ctx[c].received.Extra = <<ClientOPT>>
        /\ ~ctx[c].received.AuthenticatedData
        /\ ctx[c].Req.Extra = <<ValidatingOPT>>
        /\ InCache(cache, cacheKey(ctx[c].Req))
        /\ cacheGet(cache, cacheKey(ctx[c].Req)).AuthenticatedData
        /\ cacheGet(cache, cacheKey(ctx[c].Req)).Answer # ctx[c].wrote.Answer
        /\ ~ctx[c].wrote.AuthenticatedData
        /\ Len(ctx[c].wrote.Answer) = 1

(***************************************************************************)
(* C29: the queries the cache does not work for.                           *)
(***************************************************************************)
\* one of the four reasons of cacheWorks holds for the context d
CacheUnusable(d) ==
    \/ ~conf.CacheEnabled
    \/ d.RequestedPrivateRDNS # None
    \/ d.CustomUpstreamConfig = NoCacheCustomConfig
    \/ d.received.CheckingDisabled

\* goroutine c makes a step of the handling of its query
HandlingStep(c) == ctx'[c] # ctx[c] /\ ctx'[c].pc # "idle"

\* C29: no step of the handling of a query reads or writes the cache when
\* the cache is disabled, the query is a private reverse lookup, the context
\* has a custom upstream configuration without a cache, or the request has
\* the CD bit: the cache stays as it is, the query is not answered from it
\* and its response is not stored.
C29_UnusableCacheUntouched ==
    [][\A c \in Slots :
        (HandlingStep(c) /\ CacheUnusable(ctx'[c])) =>
            /\ cache' = cache
            /\ ~ctx'[c].cacheLookup
            /\ ~ctx'[c].cacheHit
            /\ ~ctx'[c].cacheStored]_vars

\* the cache holds an answer for the question of a request with the CD bit,
\* which was answered by the upstream
C29_Witness ==
    \E c \in Slots :
        /\ ctx[c].pc = "done"
        /\ ctx[c].received.CheckingDisabled
        /\ InCache(cache, cacheKey(ctx[c].Req))
        /\ ctx[c].exchanged = {"primary"}
        /\ ctx[c].wrote.Rcode = RcodeSuccess
        /\ ~ctx[c].cacheHit

(***************************************************************************)
(* C31: the listeners of a proxy that is not started.                      *)
(***************************************************************************)
\* C31: a proxy that is not started holds no open listener: the listeners
\* that a failed Start had created are closed again, so that a later Start
\* can bind their addresses.
C31_StoppedHoldsNoListener ==
    ~srv.started => srv.open = {} /\ srv.udpListen = <<>> /\ srv.tcpListen = <<>>

(***************************************************************************)
(* C32: Set, Get and Exists of the statistics store.                       *)
(***************************************************************************)
\* neither key is a prefix of the other
Unrelated(k, j) ==
    /\ ~(Len(k) <= Len(j) /\ Prefix(j, Len(k)) = k)
    /\ ~(Len(j) <= Len(k) /\ Prefix(k, Len(j)) = j)

\* C32: no call of the store fails; after Set(k, v) Exists(k) is true and
\* Get(k) is v, the keys unrelated to k keep their values; for a key that
\* was never set Get is nil and Exists is false, whatever was set before.
C32_StoreRoundTrip ==
    [][sm' # sm =>
        /\ sm'.pc # "panic"
        /\ sm'.last.op = "Set" =>
                /\ GetStats(sm'.stats, sm'.last.key) = Found(Leaf(sm'.last.value))
                /\ ExistsStats(sm'.stats, sm'.last.key).value = 1
                /\ \A j \in StatKeys :
                        Unrelated(sm'.last.key, j) =>
                            GetStats(sm'.stats, j) = GetStats(sm.stats, j)
        /\ \A k \in StatKeys \ sm'.wasSet :
                /\ GetStats(sm'.stats, k) = Nil
                /\ ExistsStats(sm'.stats, k).value = 0]_vars

\* the part of C32 that holds: what Set stored is what Get returns, and the
\* unrelated keys keep their values, when the call does not fail
StoreRoundTripUnlessPanic ==
    [][(sm' # sm /\ sm'.last.op = "Set" /\ sm'.pc # "panic") =>
        /\ GetStats(sm'.stats, sm'.last.key) = Found(Leaf(sm'.last.value))
        /\ ExistsStats(sm'.stats, sm'.last.key).value = 1
        /\ \A j \in StatKeys :
                Unrelated(sm'.last.key, j) =>
                    GetStats(sm'.stats, j) = GetStats(sm.stats, j)]_vars

(***************************************************************************)
(* C33: the count and the buckets of the blocked domains manager.          *)
(***************************************************************************)
\* C33: after any sequence of addDomain and clear, numDomains is the number
\* of distinct patterns stored across all buckets, and every stored pattern
\* lies in the bucket keyed by its own last label.
C33_CountAndBuckets ==
    /\ numDomains = Cardinality(Stored(hosts))
    /\ \A b \in DOMAIN hosts : \A p \in hosts[b] : Last(p) = b

\* two patterns with different last labels are stored, each in its bucket
C33_Witness ==
    /\ numDomains = 2
    /\ Cardinality(DOMAIN hosts) = 2
    /\ \A b \in DOMAIN hosts : hosts[b] # {}

(***************************************************************************)
(* C34: the block list and the cache.                                      *)
(***************************************************************************)
\* the cache holds an entry for the question of the query taken into slot c
\* in this step
CachedAtArrival(c) == InCache(cache, cacheKey(ctx'[c].Req))

\* C34: the block list takes precedence over the cache: an A or AAAA query
\* for a name that matches the block list is answered with the synthesized
\* blocked response even when the cache holds a fresh entry for it, stored
\* before the name was blocked; and a blocked response is never stored in
\* the cache.
C34_BlocklistBeforeCache ==
    [][\A c \in Slots :
        /\ (/\ Resolved(c)
            /\ ctx'[c].Req.Question[1].Qtype \in {TypeA, TypeAAAA}
            /\ BlocklistMatches(ctx'[c].Req.Question[1].Name)
            /\ CachedAtArrival(c))
           => /\ AnsweredZeroAddress(c)
              /\ ~ctx'[c].cacheHit
              /\ ctx'[c].blocked
        /\ ctx'[c].blocked => /\ ~ctx'[c].cacheStored
                              /\ ctx[c].pc = "idle" => cache' = cache]_vars

\* a query was answered with the blocked response while the cache holds the
\* entry stored for its question before
C34_Witness ==
    \E c \in Slots :
        /\ OneQuestion(c)
        /\ ctx[c].blocked
        /\ ctx[c].wrote # NoMsg
        /\ ctx[c].wrote.Answer # <<>>
        /\ ctx[c].wrote.Answer[1].Data = "0.0.0.0"
        /\ InCache(cache, cacheKey(ctx[c].Req))

(***************************************************************************)
(* C35: the letter case of the question name.                              *)
(***************************************************************************)
\* slot c holds an address query that Resolve has checked against the block
\* list
CheckedAgainstBlocklist(c) == OneQuestion(c) /\ ctx[c].blockChecked

\* the questions of slots c and e differ at most in the letter case of the
\* name
SameQuestionUpToCase(c, e) ==
    /\ ctx[c].Req.Question[1].Qtype = ctx[e].Req.Question[1].Qtype
    /\ ToLower(ctx[c].Req.Question[1].Name) = ToLower(ctx[e].Req.Question[1].Name)

\* C35: the blocking decision does not depend on the letter case of the
\* question name: when an A or AAAA query for a name is blocked, the same
\* query for an upper/lower-case variant of the name is blocked as well.
C35_BlockingIgnoresCase ==
    \A c, e \in Slots :
        (/\ CheckedAgainstBlocklist(c)
         /\ CheckedAgainstBlocklist(e)
         /\ SameQuestionUpToCase(c, e)
         /\ ctx[c].blocked)
        => ctx[e].blocked

(***************************************************************************)
(* C36: the options of the request after processECS.                       *)
(***************************************************************************)
\* the number of OPT records of message m
OPTRecords(m) == IF m.Opt.present THEN 1 ELSE 0

\* C36: after processECS the request that goes upstream contains at most one
\* ECS option and at most one OPT record, whether the request came without
\* OPT, with an OPT without ECS, with an ECS option of non-zero prefix length
\* or with an ECS option of prefix length 0.
C36_AtMostOneSubnetOption ==
    ecs.pc = "sent" =>
        /\ Cardinality(SubnetOptions(ecs.d.Req)) <= 1
        /\ OPTRecords(ecs.d.Req) <= 1

\* what holds: a request without an ECS option, or with one of non-zero
\* prefix length, goes upstream with at most one ECS option
AtMostOneSubnetOptionUnlessPrefixZero ==
    [][(/\ ProcessECSReturns
        /\ \A i \in SubnetOptions(ecs.d.Req) : ecs.d.Req.Opt.Option[i].SourceNetmask # 0)
       => Cardinality(SubnetOptions(ecs'.d.Req)) <= 1]_vars

(***************************************************************************)
(* C37: the counter of the blocked responses.                              *)
(***************************************************************************)
\* no goroutine is between the read and the write of a counter
NoIncrementInFlight == \A g \in Goroutines : sm.inc[g].pc = "idle"

\* C37: the counter blocked_domains::blocked_responses equals the number of
\* blocked responses produced so far, also when blocked queries are resolved
\* concurrently: no increment is lost between the read and the write.
C37_CounterCountsBlocked ==
    NoIncrementInFlight => CounterValue(sm.stats, BlockedResponsesKey) = sm.produced

\* what holds: the counter never runs ahead of the blocked queries taken,
\* and it is at least 1 once a blocked response was produced
CounterWithinBounds ==
    /\ CounterValue(sm.stats, BlockedResponsesKey) <= sm.started
    /\ sm.produced > 0 => CounterValue(sm.stats, BlockedResponsesKey) >= 1

(***************************************************************************)
(* C38: LoadParkedDomains.                                                 *)
(***************************************************************************)
\* caller k is inside a call of op
InsideParked(k, op) == pdm.call[k].op = op /\ pdm.call[k].pc # "idle"

\* the call of caller k has returned and k does not hold the mutex
ParkedReturned(k) == pdm.call[k].pc = "done" /\ pdm.mux # k

\* C38: LoadParkedDomains terminates and releases the mutex of the manager
\* for every input, a readable JSON file that lists at least one domain
\* included; afterwards CheckDomain returns true for each listed domain, and
\* the other callers of the manager are not blocked forever.
C38_LoadParkedDomainsTerminates ==
    /\ \A k \in Callers : InsideParked(k, "Load") ~> ParkedReturned(k)
    /\ \A k \in Callers : InsideParked(k, "Check") ~> ParkedReturned(k)
    /\ \A k \in Callers : InsideParked(k, "Add") ~> ParkedReturned(k)
    /\ [](\A k \in Callers :
            (InsideParked(k, "Load") /\ ParkedReturned(k) /\ pdm.call[k].file = "json")
            => \A i \in 1..Len(pdm.call[k].listed) :
                    CheckDomainParked(pdm.domains, pdm.call[k].listed[i]))

\* LoadParkedDomains holds the mutex of the manager when it calls AddDomain,
\* which waits for the same mutex
LoadWaitsForItsOwnMutex ==
    \A k \in Callers :
        (pdm.call[k].op = "Load" /\ pdm.call[k].pc \in {"loop", "addLock"}) => pdm.mux = k

\* a call of LoadParkedDomains is stuck in AddDomain
LoadStuck ==
    \E k \in Callers : pdm.call[k].op = "Load" /\ pdm.call[k].pc = "addLock"

(***************************************************************************)
(* C39: the recursion detector.                                            *)
(***************************************************************************)
\* the fingerprints of the detector are those of reverse lookups of private
\* addresses, and the queries the recursion check answered are such lookups
RecursionOnlyForPrivateRDNS ==
    /\ \A sig \in recSet : PrivateArpaQuestion([Name |-> sig.Name, Qtype |-> sig.Qtype])
    /\ \A c \in Slots :
            (OneQuestion(c) /\ ctx[c].validatedBy = "recursion") =>
                PrivateArpaQuestion(ctx[c].Req.Question[1])

\* C39: a fingerprint is added to the recursion detector only while a
\* private-RDNS (PTR/SOA/NS) query is being resolved, so a query is answered
\* NXDOMAIN by the recursion check only in that case; two identical A or
\* AAAA queries within the TTL of the detector are both resolved normally.
C39_RecursionOnlyForPrivateRDNS ==
    /\ RecursionOnlyForPrivateRDNS
    /\ \A c \in Slots :
            (OneQuestion(c) /\ ctx[c].Req.Question[1].Qtype \in {TypeA, TypeAAAA}) =>
                ctx[c].validatedBy # "recursion"

\* what holds: the same when no gateway address was detected
RecursionOnlyForPrivateRDNSWithoutGateway ==
    ~GatewayKnown => RecursionOnlyForPrivateRDNS

====
